---------------------------- MODULE Spec2Model ----------------------------
(***************************************************************************)
(* Model of gemini-tui: the tool executor with its containment check       *)
(* (internal/tools/executor.go) and the streaming agent loop of the        *)
(* Bubble Tea program (main.go of the streaming version).                  *)
(*                                                                         *)
(* Strings are sequences of one-character strings, so that path            *)
(* normalisation, prefix tests and trimming are computed character by      *)
(* character as the Go library does.                                       *)
(***************************************************************************)
EXTENDS Integers, Sequences, FiniteSets, TLC

(***************************************************************************)
(* Bounds of the model.                                                    *)
(***************************************************************************)
\* Execute calls made in one behaviour of SpecExec.
MaxOps == 2
\* User turns (accepted Enter presses) in one behaviour of Spec.
MaxCycles == 2
\* Streams started in one behaviour of Spec (first rounds and tool rounds).
MaxStreams == 3
\* Partial responses the backend delivers in one stream.
MaxResps == 1

\* Ctrl+T and Ctrl+G presses of a run.
MaxKeys == 1

(***************************************************************************)
(* Strings and paths (path/filepath, strings).                             *)
(***************************************************************************)
DotDot == <<".", ".">>

\* strings.HasPrefix(s, prefix)
HasPrefix(s, prefix) ==
    /\ Len(s) >= Len(prefix)
    /\ SubSeq(s, 1, Len(prefix)) = prefix

\* strings.Split(s, "/"): the elements between separators, empty ones kept.
RECURSIVE Split(_)
Split(s) ==
    IF s = <<>> THEN << <<>> >>
    ELSE LET rest == Split(Tail(s)) IN
         IF Head(s) = "/" THEN << <<>> >> \o rest
         ELSE << <<Head(s)>> \o Head(rest) >> \o Tail(rest)

\* strings.Join(segs, "/")
RECURSIVE JoinSegs(_)
JoinSegs(segs) ==
    IF segs = <<>> THEN <<>>
    ELSE IF Len(segs) = 1 THEN Head(segs)
    ELSE Head(segs) \o <<"/">> \o JoinSegs(Tail(segs))

\* The element loop of filepath.Clean: empty and "." elements are dropped,
\* ".." removes the element before it, is dropped at the root of a rooted
\* path and is kept at the front of a relative one.
RECURSIVE CleanSegs(_, _, _)
CleanSegs(segs, out, rooted) ==
    IF segs = <<>> THEN out
    ELSE LET s == Head(segs) IN
         IF s = <<>> \/ s = <<".">> THEN CleanSegs(Tail(segs), out, rooted)
         ELSE IF s = DotDot THEN
              IF Len(out) > 0 /\ out[Len(out)] # DotDot
              THEN CleanSegs(Tail(segs), SubSeq(out, 1, Len(out) - 1), rooted)
              ELSE IF rooted THEN CleanSegs(Tail(segs), out, rooted)
              ELSE CleanSegs(Tail(segs), Append(out, DotDot), rooted)
         ELSE CleanSegs(Tail(segs), Append(out, s), rooted)

\* filepath.IsAbs (unix)
IsAbs(path) == HasPrefix(path, <<"/">>)

\* filepath.Clean
Clean(path) ==
    LET Joined(rooted, segs) ==
            IF rooted THEN <<"/">> \o JoinSegs(segs)
            ELSE IF segs = <<>> THEN <<".">>
            ELSE JoinSegs(segs)
    IN  IF path = <<>> THEN <<".">>
        ELSE Joined(IsAbs(path), CleanSegs(Split(path), <<>>, IsAbs(path)))

\* filepath.Join(a, b) for two elements: empty elements are ignored, the
\* rest is joined with a separator and cleaned.
Join(a, b) ==
    IF a = <<>> /\ b = <<>> THEN <<>>
    ELSE IF a = <<>> THEN Clean(b)
    ELSE IF b = <<>> THEN Clean(a)
    ELSE Clean(a \o <<"/">> \o b)

\* filepath.Dir of a cleaned path.
Dir(path) ==
    LET Parent(rooted, segs) ==
            IF rooted
            THEN <<"/">> \o JoinSegs(SubSeq(segs, 1, Len(segs) - 1))
            ELSE IF Len(segs) <= 1 THEN <<".">>
            ELSE JoinSegs(SubSeq(segs, 1, Len(segs) - 1))
    IN  Parent(IsAbs(path), CleanSegs(Split(path), <<>>, IsAbs(path)))

\* The non-empty elements of a cleaned path ("." has none).
Elems(path) ==
    LET Of(c) == IF c = <<".">> THEN <<>>
                 ELSE SelectSeq(Split(c), LAMBDA s : s # <<>>)
    IN  Of(Clean(path))

\* Length of the longest common prefix of two element lists.
RECURSIVE CommonLen(_, _)
CommonLen(a, b) ==
    IF a = <<>> \/ b = <<>> \/ Head(a) # Head(b) THEN 0
    ELSE 1 + CommonLen(Tail(a), Tail(b))

\* filepath.Rel(basepath, targpath): the elements both paths share are
\* dropped, one ".." stands for every base element left, then come the
\* target elements left.  It fails when only one of the two is rooted or
\* when the base element at the first difference is "..".
Rel(basepath, targpath) ==
    LET Result(base, targ, bl, tl) ==
            IF targ = base THEN [err |-> FALSE, rel |-> <<".">>]
            ELSE IF IsAbs(base) # IsAbs(targ) THEN [err |-> TRUE, rel |-> <<>>]
            ELSE IF bl # <<>> /\ Head(bl) = DotDot THEN [err |-> TRUE, rel |-> <<>>]
            ELSE IF bl # <<>>
                 THEN [err |-> FALSE,
                       rel |-> JoinSegs([i \in 1..Len(bl) |-> DotDot] \o tl)]
            ELSE [err |-> FALSE, rel |-> JoinSegs(tl)]
        Left(base, targ, b, t, k) ==
            Result(base, targ, SubSeq(b, k + 1, Len(b)), SubSeq(t, k + 1, Len(t)))
        Compare(base, targ, b, t) == Left(base, targ, b, t, CommonLen(b, t))
        Cleaned(base, targ) == Compare(base, targ, Elems(base), Elems(targ))
    IN  Cleaned(Clean(basepath), Clean(targpath))


(***************************************************************************)
(* The file system seen through package os.  A file system is a function   *)
(* from absolute cleaned paths to nodes; a node is a directory, a regular  *)
(* file with its bytes, or a symbolic link with an absolute target.  The   *)
(* bytes of a file are a record [s, pad]: the characters s followed by pad *)
(* filler bytes that are not NUL and occur in no search string, so that    *)
(* sizes of the order of the limits need no long sequences.                *)
(***************************************************************************)
NUL == "\\0"

Bytes(s, pad) == [s |-> s, pad |-> pad]

\* len(content)
BLen(b) == Len(b.s) + b.pad

DirNode == [kind |-> "dir", content |-> Bytes(<<>>, 0), target |-> <<>>]
\* A directory for which stat reports n bytes (the size of a directory is
\* the file system's business and grows with its entries).
DirNodeOfSize(n) == [kind |-> "dir", content |-> Bytes(<<>>, n), target |-> <<>>]
FileNode(b) == [kind |-> "file", content |-> b, target |-> <<>>]
LinkNode(t) == [kind |-> "link", content |-> Bytes(<<>>, 0), target |-> t]

Child(dir, name) ==
    IF dir = <<"/">> THEN dir \o name ELSE dir \o <<"/">> \o name

\* The object a path names once every symbolic link on the way, the last
\* element included, is followed (what stat, open and mkdir work on).
RECURSIVE Walk(_, _, _)
Walk(fs, cur, segs) ==
    LET Follow(next) ==
            IF next \in DOMAIN fs /\ fs[next].kind = "link"
            THEN fs[next].target ELSE next
    IN  IF segs = <<>> THEN cur
        ELSE Walk(fs, Follow(Child(cur, Head(segs))), Tail(segs))

Phys(fs, path) == Walk(fs, <<"/">>, Elems(path))

\* Whether an ancestor of the (missing) object q is a regular file: the
\* system call then fails with ENOTDIR instead of ENOENT.
UnderFile(fs, q) ==
    LET IsFile(a) == a \in DOMAIN fs /\ fs[a].kind = "file"
        Among(e) ==
            \E k \in 1..(Len(e) - 1) : IsFile(<<"/">> \o JoinSegs(SubSeq(e, 1, k)))
    IN  Among(Elems(q))

\* The error of a system call, as err.Error() renders it.
SysErr(msg, path) == [msg |-> msg, path |-> path, n |-> 0]

\* os.Stat
Stat(fs, path) ==
    LET Of(q) ==
            IF q \in DOMAIN fs
            THEN [err |-> "", phys |-> q, isDir |-> fs[q].kind = "dir",
                  size |-> BLen(fs[q].content)]
            ELSE [err |-> IF UnderFile(fs, q) THEN "not a directory"
                          ELSE "no such file or directory",
                  phys |-> q, isDir |-> FALSE, size |-> 0]
    IN  Of(Phys(fs, path))

\* os.IsNotExist
IsNotExist(err) == err = "no such file or directory"

\* os.ReadFile
ReadFile(fs, path) ==
    LET Of(st) ==
            IF st.err # ""
            THEN [err |-> st.err, phys |-> st.phys, content |-> Bytes(<<>>, 0)]
            ELSE IF st.isDir
                 THEN [err |-> "is a directory", phys |-> st.phys,
                       content |-> Bytes(<<>>, 0)]
            ELSE [err |-> "", phys |-> st.phys, content |-> fs[st.phys].content]
    IN  Of(Stat(fs, path))

\* os.WriteFile: creates the file in an existing directory or truncates an
\* existing file, following a symbolic link in the last element.
WriteFile(fs, path, b) ==
    LET In(q, parent) ==
            IF q \in DOMAIN fs
            THEN IF fs[q].kind = "dir"
                 THEN [err |-> "is a directory", phys |-> q, fs |-> fs]
                 ELSE [err |-> "", phys |-> q, fs |-> [fs EXCEPT ![q] = FileNode(b)]]
            ELSE IF parent \in DOMAIN fs /\ fs[parent].kind = "dir"
                 THEN [err |-> "", phys |-> q, fs |-> (q :> FileNode(b)) @@ fs]
            ELSE [err |-> IF UnderFile(fs, q) THEN "not a directory"
                          ELSE "no such file or directory",
                  phys |-> q, fs |-> fs]
        At(q) == In(q, Dir(q))
    IN  At(Phys(fs, path))

\* os.MkdirAll: every missing element is created, from the top; an element
\* that exists and is no directory (after following a link) is an error,
\* and then nothing was created, because missing elements only follow
\* existing ones.
RECURSIVE MkdirWalk(_, _, _, _)
MkdirWalk(fs, cur, segs, made) ==
    LET Step(next) ==
            IF next \in DOMAIN fs
            THEN IF fs[next].kind = "dir"
                 THEN MkdirWalk(fs, next, Tail(segs), made)
                 ELSE IF /\ fs[next].kind = "link"
                         /\ fs[next].target \in DOMAIN fs
                         /\ fs[fs[next].target].kind = "dir"
                      THEN MkdirWalk(fs, fs[next].target, Tail(segs), made)
                 ELSE [err |-> IF fs[next].kind = "file" THEN "not a directory"
                               ELSE "file exists",
                       fs |-> fs, made |-> made]
            ELSE MkdirWalk((next :> DirNode) @@ fs, next, Tail(segs),
                           made \cup {next})
    IN  IF segs = <<>> THEN [err |-> "", fs |-> fs, made |-> made]
        ELSE Step(Child(cur, Head(segs)))

MkdirAll(fs, path) == MkdirWalk(fs, <<"/">>, Elems(path), {})

\* Byte values of the characters the model uses, for the name order of
\* os.ReadDir.
CharCode(c) ==
    CASE c = " " -> 32 [] c = "*" -> 42 [] c = "." -> 46 [] c = "/" -> 47
      [] c = "[" -> 91 [] c = "a" -> 97 [] c = "b" -> 98 [] c = "d" -> 100
      [] c = "f" -> 102 [] c = "h" -> 104 [] c = "l" -> 108 [] c = "r" -> 114
      [] c = "s" -> 115 [] c = "x" -> 120 [] c = "y" -> 121
      [] OTHER -> 0

RECURSIVE StrLess(_, _)
StrLess(a, b) ==
    IF b = <<>> THEN FALSE
    ELSE IF a = <<>> THEN TRUE
    ELSE IF Head(a) = Head(b) THEN StrLess(Tail(a), Tail(b))
    ELSE CharCode(Head(a)) < CharCode(Head(b))

\* The entries of a directory, by name: the last elements of the paths
\* that are its children.
EntryNames(fs, dir) ==
    {e[Len(e)] : e \in {Elems(p) : p \in {p \in DOMAIN fs : p # <<"/">> /\ Dir(p) = dir}}}

\* The names of S in name order: those below a middle name, the middle
\* name, those above it.
RECURSIVE SetToSortedSeq(_)
SetToSortedSeq(S) ==
    LET Around(m) ==
            SetToSortedSeq({y \in S : StrLess(y, m)}) \o <<m>>
                \o SetToSortedSeq({y \in S : StrLess(m, y)})
    IN  IF S = {} THEN <<>>
        ELSE Around(CHOOSE x \in S :
                        Cardinality({y \in S : StrLess(y, x)}) = Cardinality(S) \div 2)

\* os.ReadDir of an existing directory object: entries sorted by name; an
\* entry is a directory when the entry itself is one (a link is not).
ReadDir(fs, dir) ==
    LET Of(names) ==
            [i \in 1..Len(names) |->
                [name |-> names[i],
                 isDir |-> fs[Child(dir, names[i])].kind = "dir"]]
    IN  Of(SetToSortedSeq(EntryNames(fs, dir)))

(***************************************************************************)
(* The executor (internal/tools/executor.go).  An argument mapping is a    *)
(* function from argument names to values; a value is [t, v, pad] with     *)
(* t = "string" for a Go string (the characters v, then pad filler bytes)  *)
(* and another t for a value of any other dynamic type.                    *)
(***************************************************************************)
\* Executor.workingDir: the absolute path NewExecutor resolved.
workingDir == <<"/", "r">>

\* Executor.maxFileSize
maxFileSize == 102400

\* Executor.maxResults
maxResults == 100

\* The bytes isBinaryFile reads.
BinaryProbe == 512

StrVal(v) == [t |-> "string", v |-> v, pad |-> 0]
BigStrVal(v, pad) == [t |-> "string", v |-> v, pad |-> pad]
NumVal == [t |-> "number", v |-> <<>>, pad |-> 0]

\* The arguments a tool's declaration lists as required.
Required(name) ==
    CASE name = "read_file" -> {"path"}
      [] name = "list_directory" -> {}
      [] name = "glob_search" -> {"pattern"}
      [] name = "write_file" -> {"path", "content"}
      [] name = "edit_file" -> {"path", "old_string", "new_string"}
      [] name = "create_directory" -> {"path"}
      [] OTHER -> {}

\* args[k].(string) taking a value of any type for a string: one that is
\* no string reads as the empty string.
AsStringAnyType(args, k) ==
    IF k \in DOMAIN args
    THEN [ok |-> TRUE, s |-> args[k].v, pad |-> args[k].pad]
    ELSE [ok |-> FALSE, s |-> <<>>, pad |-> 0]

\* args[k].(string): the value and whether the assertion holds.
AsString(args, k) ==
    IF k \in DOMAIN args /\ args[k].t = "string"
    THEN [ok |-> TRUE, s |-> args[k].v, pad |-> args[k].pad]
    ELSE [ok |-> FALSE, s |-> <<>>, pad |-> 0]

\* A result's "error" value: the message format and what is formatted
\* into it (a path argument, a number).
ErrVal(msg, path, n) == [msg |-> msg, path |-> path, n |-> n]

\* What a call returns and does: the result mapping, the file system after
\* it, the objects whose bytes or entries it read and those it created or
\* wrote.
Outcome(result, fs, reads, writes) ==
    [result |-> result, fs |-> fs, reads |-> reads, writes |-> writes]

\* An error result that also reports success.
FailureWithSuccess(fs, msg) ==
    Outcome([error |-> ErrVal(msg, <<>>, 0), success |-> TRUE], fs, {}, {})

\* An "error" value whose format takes a size and a limit.
ErrValMax(msg, n, max) == [msg |-> msg, path |-> <<>>, n |-> n, max |-> max]

Failure(fs, msg) == Outcome([error |-> ErrVal(msg, <<>>, 0)], fs, {}, {})

\* filepath.Abs with the process working directory, which is workingDir
\* (main builds the executor from os.Getwd()).
Abs(path) == IF IsAbs(path) THEN Clean(path) ELSE Join(workingDir, path)

\* resolvePath
resolvePath(path) ==
    IF IsAbs(path) THEN Clean(path) ELSE Clean(Join(workingDir, path))

\* A containment check by string prefix of the absolute path.
isPathAllowedByPrefix(path) == HasPrefix(Abs(path), workingDir)

\* isPathAllowed
isPathAllowed(path) ==
    LET Within(r) == IF r.err THEN FALSE ELSE ~HasPrefix(r.rel, DotDot)
    IN  Within(Rel(workingDir, Abs(path)))

\* isBinaryFile looking for a NUL byte in the whole file.
isBinaryFileWholeFile(fs, path) ==
    LET Probe(rd) ==
            IF rd.err # "" THEN FALSE
            ELSE IF BLen(rd.content) = 0 THEN FALSE
            ELSE \E i \in 1..Len(rd.content.s) : rd.content.s[i] = NUL
    IN  Probe(ReadFile(fs, path))

\* isBinaryFile taking no file for binary.
isBinaryFileNever(fs, path) == FALSE

\* isBinaryFile: a NUL byte among the first bytes read; a failed open or
\* read (an empty file reads as EOF) is "not binary".
isBinaryFile(fs, path) ==
    LET Probe(rd) ==
            IF rd.err # "" THEN FALSE
            ELSE IF BLen(rd.content) = 0 THEN FALSE
            ELSE \E i \in 1..Len(rd.content.s) :
                     i <= BinaryProbe /\ rd.content.s[i] = NUL
    IN  Probe(ReadFile(fs, path))

\* readFile comparing the size with the limit before it looks whether the
\* path is a directory.
readFileSizeFirst(fs, args) ==
    LET Read(pa, fullPath, st, rd) ==
            IF ~pa.ok \/ pa.s = <<>> THEN Failure(fs, "path is required")
            ELSE IF ~isPathAllowed(fullPath)
                 THEN Failure(fs, "path is outside allowed directory")
            ELSE IF st.err # ""
                 THEN IF IsNotExist(st.err)
                      THEN Outcome([error |-> ErrVal("file not found: %s", pa.s, 0)],
                                   fs, {}, {})
                      ELSE Outcome([error |-> SysErr(st.err, fullPath)], fs, {}, {})
            ELSE IF st.size > maxFileSize
                 THEN Outcome([error |-> ErrValMax("file too large: %d bytes (max %d bytes)",
                                                   st.size, maxFileSize),
                               path |-> fullPath, size |-> st.size], fs, {}, {})
            ELSE IF st.isDir
                 THEN Failure(fs, "path is a directory, use list_directory instead")
            ELSE IF isBinaryFile(fs, fullPath)
                 THEN Outcome([error |-> ErrVal("file appears to be binary", <<>>, 0),
                               path |-> fullPath, size |-> st.size],
                              fs, {st.phys}, {})
            ELSE IF rd.err # ""
                 THEN Outcome([error |-> SysErr(rd.err, fullPath)], fs, {}, {})
            ELSE Outcome([path |-> fullPath, content |-> rd.content, size |-> st.size],
                         fs, {st.phys}, {})
        At(pa, fullPath) ==
            Read(pa, fullPath, Stat(fs, fullPath), ReadFile(fs, fullPath))
        With(pa) == At(pa, resolvePath(pa.s))
    IN  With(AsString(args, "path"))

\* readFile looking the path up before the containment check.
readFileStatFirst(fs, args) ==
    LET Read(pa, fullPath, st, rd) ==
            IF ~pa.ok \/ pa.s = <<>> THEN Failure(fs, "path is required")
            ELSE IF st.err # ""
                 THEN IF IsNotExist(st.err)
                      THEN Outcome([error |-> ErrVal("file not found: %s", pa.s, 0)],
                                   fs, {}, {})
                      ELSE Outcome([error |-> SysErr(st.err, fullPath)], fs, {}, {})
            ELSE IF ~isPathAllowed(fullPath)
                 THEN Failure(fs, "path is outside allowed directory")
            ELSE IF st.isDir
                 THEN Failure(fs, "path is a directory, use list_directory instead")
            ELSE IF st.size > maxFileSize
                 THEN Outcome([error |-> ErrValMax("file too large: %d bytes (max %d bytes)",
                                                   st.size, maxFileSize),
                               path |-> fullPath, size |-> st.size], fs, {}, {})
            ELSE IF isBinaryFile(fs, fullPath)
                 THEN Outcome([error |-> ErrVal("file appears to be binary", <<>>, 0),
                               path |-> fullPath, size |-> st.size],
                              fs, {st.phys}, {})
            ELSE IF rd.err # ""
                 THEN Outcome([error |-> SysErr(rd.err, fullPath)], fs, {}, {})
            ELSE Outcome([path |-> fullPath, content |-> rd.content, size |-> st.size],
                         fs, {st.phys}, {})
        At(pa, fullPath) ==
            Read(pa, fullPath, Stat(fs, fullPath), ReadFile(fs, fullPath))
        With(pa) == At(pa, resolvePath(pa.s))
    IN  With(AsString(args, "path"))

\* readFile
readFile(fs, args) ==
    LET Read(pa, fullPath, st, rd) ==
            IF ~pa.ok \/ pa.s = <<>> THEN Failure(fs, "path is required")
            ELSE IF ~isPathAllowed(fullPath)
                 THEN Failure(fs, "path is outside allowed directory")
            ELSE IF st.err # ""
                 THEN IF IsNotExist(st.err)
                      THEN Outcome([error |-> ErrVal("file not found: %s", pa.s, 0)],
                                   fs, {}, {})
                      ELSE Outcome([error |-> SysErr(st.err, fullPath)], fs, {}, {})
            ELSE IF st.isDir
                 THEN Failure(fs, "path is a directory, use list_directory instead")
            ELSE IF st.size > maxFileSize
                 THEN Outcome([error |-> ErrValMax("file too large: %d bytes (max %d bytes)",
                                                   st.size, maxFileSize),
                               path |-> fullPath, size |-> st.size], fs, {}, {})
            ELSE IF isBinaryFile(fs, fullPath)
                 THEN Outcome([error |-> ErrVal("file appears to be binary", <<>>, 0),
                               path |-> fullPath, size |-> st.size],
                              fs, {st.phys}, {})
            ELSE IF rd.err # ""
                 THEN Outcome([error |-> SysErr(rd.err, fullPath)], fs, {}, {})
            ELSE Outcome([path |-> fullPath, content |-> rd.content, size |-> st.size],
                         fs, {st.phys}, {})
        At(pa, fullPath) ==
            Read(pa, fullPath, Stat(fs, fullPath), ReadFile(fs, fullPath))
        With(pa) == At(pa, resolvePath(pa.s))
    IN  With(AsString(args, "path"))

\* listDirectory without the default of ".", asking for a path as the
\* other tools do.
listDirectoryPathRequired(fs, args) ==
    LET Items(entries) ==
            [i \in 1..Len(entries) |->
                IF entries[i].isDir THEN entries[i].name \o <<"/">>
                ELSE entries[i].name]
        Listed(fullPath, st, items) ==
            Outcome([path |-> fullPath, items |-> items, count |-> Len(items)],
                    fs, {st.phys}, {})
        List(pathArg, fullPath, st) ==
            IF pathArg = <<>> THEN Failure(fs, "path is required")
            ELSE IF ~isPathAllowed(fullPath)
            THEN Failure(fs, "path is outside allowed directory")
            ELSE IF st.err # ""
                 THEN IF IsNotExist(st.err)
                      THEN Outcome([error |-> ErrVal("directory not found: %s",
                                                     pathArg, 0)], fs, {}, {})
                      ELSE Outcome([error |-> SysErr(st.err, fullPath)], fs, {}, {})
            ELSE IF ~st.isDir THEN Failure(fs, "path is not a directory")
            ELSE Listed(fullPath, st, Items(ReadDir(fs, st.phys)))
        At(pathArg, fullPath) == List(pathArg, fullPath, Stat(fs, fullPath))
        With(pathArg) == At(pathArg, resolvePath(pathArg))
    IN  With(AsString(args, "path").s)

\* listDirectory
listDirectory(fs, args) ==
    LET Items(entries) ==
            [i \in 1..Len(entries) |->
                IF entries[i].isDir THEN entries[i].name \o <<"/">>
                ELSE entries[i].name]
        Listed(fullPath, st, items) ==
            Outcome([path |-> fullPath, items |-> items, count |-> Len(items)],
                    fs, {st.phys}, {})
        List(pathArg, fullPath, st) ==
            IF ~isPathAllowed(fullPath)
            THEN Failure(fs, "path is outside allowed directory")
            ELSE IF st.err # ""
                 THEN IF IsNotExist(st.err)
                      THEN Outcome([error |-> ErrVal("directory not found: %s",
                                                     pathArg, 0)], fs, {}, {})
                      ELSE Outcome([error |-> SysErr(st.err, fullPath)], fs, {}, {})
            ELSE IF ~st.isDir THEN Failure(fs, "path is not a directory")
            ELSE Listed(fullPath, st, Items(ReadDir(fs, st.phys)))
        At(pathArg, fullPath) == List(pathArg, fullPath, Stat(fs, fullPath))
        With(pathArg) == At(pathArg, resolvePath(pathArg))
        Default(pa) == With(IF pa.s = <<>> THEN <<".">> ELSE pa.s)
    IN  Default(AsString(args, "path"))

\* Matching of one path element against one pattern element, where "*"
\* stands for any run of characters (doublestar's single-element match).
RECURSIVE MatchName(_, _)
MatchName(pat, name) ==
    IF pat = <<>> THEN name = <<>>
    ELSE IF Head(pat) = "*"
         THEN \/ MatchName(Tail(pat), name)
              \/ name # <<>> /\ MatchName(pat, Tail(name))
    ELSE name # <<>> /\ Head(pat) = Head(name) /\ MatchName(Tail(pat), Tail(name))

\* doublestar.ValidatePattern for the patterns of the model, whose only
\* malformed construct is a character class that is never closed.
ValidPattern(pattern) == \A i \in 1..Len(pattern) : pattern[i] # "["

\* The directory object an entry leads to, or <<>> when it is no directory
\* (os.DirFS opens through symbolic links).
EntryDir(fs, dir, name) ==
    LET Of(q) == IF q \in DOMAIN fs /\ fs[q].kind = "dir" THEN q ELSE <<>>
    IN  Of(Phys(fs, Child(dir, name)))

\* doublestar.Glob over os.DirFS(workingDir): the walk from a directory
\* object, element by element of the pattern; "**" stands for zero or more
\* directories.  It yields the matches, as paths relative to the root of
\* the walk and in walk order, and the directories whose entries it read.
RECURSIVE GlobWalk(_, _, _, _)
RECURSIVE GlobEach(_, _, _, _, _)
GlobWalk(fs, dir, prefix, pat) ==
    LET Both(here, each) ==
            [matches |-> here.matches \o each.matches,
             dirs |-> here.dirs \cup each.dirs \cup {dir}]
        Only(each) == [matches |-> each.matches, dirs |-> each.dirs \cup {dir}]
    IN  IF pat = <<>> THEN [matches |-> <<JoinSegs(prefix)>>, dirs |-> {}]
        ELSE IF Head(pat) = <<"*", "*">> /\ Tail(pat) # <<>>
             THEN Both(GlobWalk(fs, dir, prefix, Tail(pat)),
                       GlobEach(fs, dir, prefix, pat, ReadDir(fs, dir)))
        ELSE Only(GlobEach(fs, dir, prefix, pat, ReadDir(fs, dir)))

GlobEach(fs, dir, prefix, pat, entries) ==
    LET None == [matches |-> <<>>, dirs |-> {}]
        This(name, sub) ==
            IF Head(pat) = <<"*", "*">>
            THEN IF sub # <<>>
                 THEN GlobWalk(fs, sub, Append(prefix, name), pat)
                 ELSE None
            ELSE IF ~MatchName(Head(pat), name) THEN None
            ELSE IF Tail(pat) = <<>>
                 THEN [matches |-> <<JoinSegs(Append(prefix, name))>>, dirs |-> {}]
            ELSE IF sub # <<>>
                 THEN GlobWalk(fs, sub, Append(prefix, name), Tail(pat))
            ELSE None
        Joined(this, rest) ==
            [matches |-> this.matches \o rest.matches,
             dirs |-> this.dirs \cup rest.dirs]
        Entry(name) == This(name, EntryDir(fs, dir, name))
        Halves(k) ==
            Joined(GlobEach(fs, dir, prefix, pat, SubSeq(entries, 1, k)),
                   GlobEach(fs, dir, prefix, pat, SubSeq(entries, k + 1, Len(entries))))
    IN  IF entries = <<>> THEN None
        ELSE IF Len(entries) = 1 THEN Entry(Head(entries).name)
        ELSE Halves(Len(entries) \div 2)

Glob(fs, pattern) == GlobWalk(fs, Phys(fs, workingDir), <<>>, Split(pattern))

\* globSearch cutting the matches already when there are maxResults of
\* them.
globSearchCuttingAtLimit(fs, args) ==
    LET Found(pa, g, matches, truncated) ==
            Outcome([pattern |-> pa.s, matches |-> matches,
                     count |-> Len(matches), truncated |-> truncated],
                    fs, g.dirs, {})
        Limit(pa, g) ==
            IF Len(g.matches) >= maxResults
            THEN Found(pa, g, SubSeq(g.matches, 1, maxResults), TRUE)
            ELSE Found(pa, g, g.matches, FALSE)
        Search(pa) ==
            IF ~pa.ok \/ pa.s = <<>> THEN Failure(fs, "pattern is required")
            ELSE IF ~ValidPattern(pa.s) THEN Failure(fs, "invalid pattern: %s")
            ELSE Limit(pa, Glob(fs, pa.s))
    IN  Search(AsString(args, "pattern"))

\* globSearch
globSearch(fs, args) ==
    LET Found(pa, g, matches, truncated) ==
            Outcome([pattern |-> pa.s, matches |-> matches,
                     count |-> Len(matches), truncated |-> truncated],
                    fs, g.dirs, {})
        Limit(pa, g) ==
            IF Len(g.matches) > maxResults
            THEN Found(pa, g, SubSeq(g.matches, 1, maxResults), TRUE)
            ELSE Found(pa, g, g.matches, FALSE)
        Search(pa) ==
            IF ~pa.ok \/ pa.s = <<>> THEN Failure(fs, "pattern is required")
            ELSE IF ~ValidPattern(pa.s) THEN Failure(fs, "invalid pattern: %s")
            ELSE Limit(pa, Glob(fs, pa.s))
    IN  Search(AsString(args, "pattern"))

\* writeFile making the parent directories before it compares the length
\* of the content with the limit.
writeFileMkdirFirst(fs, args) ==
    LET Written(fullPath, content, mk, wr) ==
            IF wr.err # ""
            THEN Outcome([error |-> SysErr(wr.err, fullPath)], mk.fs, {}, mk.made)
            ELSE Outcome([path |-> fullPath, size |-> BLen(content), success |-> TRUE],
                         wr.fs, {}, mk.made \cup {wr.phys})
        Made(fullPath, content, dir, mk) ==
            IF mk.err # ""
            THEN Outcome([error |-> ErrVal("failed to create directory: %s", dir, 0)],
                         fs, {}, {})
            ELSE Written(fullPath, content, mk, WriteFile(mk.fs, fullPath, content))
        InDir(fullPath, content, dir) ==
            Made(fullPath, content, dir, MkdirAll(fs, dir))
        Write(pa, ca, content, fullPath) ==
            IF ~pa.ok \/ pa.s = <<>> THEN Failure(fs, "path is required")
            ELSE IF ~ca.ok THEN Failure(fs, "content is required")
            ELSE IF ~isPathAllowed(fullPath)
                 THEN Failure(fs, "path is outside allowed directory")
            ELSE IF BLen(content) > maxFileSize * 10
                 THEN Outcome([error |-> ErrValMax("content too large: %d bytes (max %d bytes)",
                                                   BLen(content), maxFileSize * 10)],
                              MkdirAll(fs, Dir(fullPath)).fs, {}, {})
            ELSE InDir(fullPath, content, Dir(fullPath))
        With(pa, ca) == Write(pa, ca, Bytes(ca.s, ca.pad), resolvePath(pa.s))
    IN  With(AsString(args, "path"), AsString(args, "content"))

\* writeFile
writeFile(fs, args) ==
    LET Written(fullPath, content, mk, wr) ==
            IF wr.err # ""
            THEN Outcome([error |-> SysErr(wr.err, fullPath)], mk.fs, {}, mk.made)
            ELSE Outcome([path |-> fullPath, size |-> BLen(content), success |-> TRUE],
                         wr.fs, {}, mk.made \cup {wr.phys})
        Made(fullPath, content, dir, mk) ==
            IF mk.err # ""
            THEN Outcome([error |-> ErrVal("failed to create directory: %s", dir, 0)],
                         fs, {}, {})
            ELSE Written(fullPath, content, mk, WriteFile(mk.fs, fullPath, content))
        InDir(fullPath, content, dir) ==
            Made(fullPath, content, dir, MkdirAll(fs, dir))
        Write(pa, ca, content, fullPath) ==
            IF ~pa.ok \/ pa.s = <<>> THEN Failure(fs, "path is required")
            ELSE IF ~ca.ok THEN Failure(fs, "content is required")
            ELSE IF ~isPathAllowed(fullPath)
                 THEN Failure(fs, "path is outside allowed directory")
            ELSE IF BLen(content) > maxFileSize * 10
                 THEN Outcome([error |-> ErrValMax("content too large: %d bytes (max %d bytes)",
                                                   BLen(content), maxFileSize * 10)],
                              fs, {}, {})
            ELSE InDir(fullPath, content, Dir(fullPath))
        With(pa, ca) == Write(pa, ca, Bytes(ca.s, ca.pad), resolvePath(pa.s))
    IN  With(AsString(args, "path"), AsString(args, "content"))

\* The first index from which sub is found in s at or after from, or 0.
NextMatch(s, sub, from) ==
    LET First(found) ==
            IF found = {} THEN 0
            ELSE CHOOSE i \in found : \A j \in found : i <= j
    IN  First({i \in from..(Len(s) - Len(sub) + 1) :
                  SubSeq(s, i, i + Len(sub) - 1) = sub})

\* The occurrences of sub in s from an index on, each one looked for
\* after the end of the one before.
RECURSIVE CountFrom(_, _, _)
CountFrom(s, sub, from) ==
    LET After(n) ==
            IF n = 0 THEN 0 ELSE 1 + CountFrom(s, sub, n + Len(sub))
    IN  After(NextMatch(s, sub, from))

\* strings.Count for a non-empty substring: non-overlapping occurrences,
\* counted from the left.
CountSub(s, sub) == CountFrom(s, sub, 1)

\* strings.Count(content, substr); an empty substr counts one more than
\* the characters of content.
Count(content, sub) ==
    IF sub = <<>> THEN BLen(content) + 1 ELSE CountSub(content.s, sub)

\* strings.Contains answering yes for every substring.
ContainsAlways(content, sub) == Count(content, sub) >= 0

\* strings.Contains
Contains(content, sub) == Count(content, sub) > 0

\* strings.Replace(s, old, new, 1) on the characters.
ReplaceFirst(s, old, new) ==
    LET At(n) ==
            IF n = 0 THEN s
            ELSE SubSeq(s, 1, n - 1) \o new \o SubSeq(s, n + Len(old), Len(s))
    IN  At(NextMatch(s, old, 1))

\* editFile replacing and writing before it looks at the count.
editFileWritingFirst(fs, args) ==
    LET Written(fullPath, rd, newContent, wr) ==
            IF wr.err # ""
            THEN Outcome([error |-> SysErr(wr.err, fullPath)], fs, {rd.phys}, {})
            ELSE Outcome([path |-> fullPath, size |-> BLen(newContent),
                          success |-> TRUE],
                         wr.fs, {rd.phys}, {wr.phys})
        Replaced(fullPath, rd, newContent) ==
            Written(fullPath, rd, newContent, WriteFile(fs, fullPath, newContent))
        Counted(oa, na, fullPath, rd, count) ==
            IF count > 1
            THEN Outcome([error |-> ErrVal("old_string found %d times in file, must be unique",
                                           <<>>, count),
                          path |-> fullPath, occurrences |-> count],
                         WriteFile(fs, fullPath,
                                   Bytes(ReplaceFirst(rd.content.s, oa.s, na.s),
                                         rd.content.pad)).fs,
                         {rd.phys}, {})
            ELSE Replaced(fullPath, rd,
                          Bytes(ReplaceFirst(rd.content.s, oa.s, na.s), rd.content.pad))
        Edit(pa, oa, na, fullPath, rd) ==
            IF ~pa.ok \/ pa.s = <<>> THEN Failure(fs, "path is required")
            ELSE IF ~oa.ok THEN Failure(fs, "old_string is required")
            ELSE IF ~na.ok THEN Failure(fs, "new_string is required")
            ELSE IF ~isPathAllowed(fullPath)
                 THEN Failure(fs, "path is outside allowed directory")
            ELSE IF rd.err # ""
                 THEN IF IsNotExist(rd.err)
                      THEN Outcome([error |-> ErrVal("file not found: %s", pa.s, 0)],
                                   fs, {}, {})
                      ELSE Outcome([error |-> SysErr(rd.err, fullPath)], fs, {}, {})
            ELSE IF ~Contains(rd.content, oa.s)
                 THEN Outcome([error |-> ErrVal("old_string not found in file", <<>>, 0),
                               path |-> fullPath], fs, {rd.phys}, {})
            ELSE Counted(oa, na, fullPath, rd, Count(rd.content, oa.s))
        At(pa, oa, na, fullPath) == Edit(pa, oa, na, fullPath, ReadFile(fs, fullPath))
        With(pa, oa, na) == At(pa, oa, na, resolvePath(pa.s))
    IN  With(AsString(args, "path"), AsString(args, "old_string"),
             AsString(args, "new_string"))

\* editFile
editFile(fs, args) ==
    LET Written(fullPath, rd, newContent, wr) ==
            IF wr.err # ""
            THEN Outcome([error |-> SysErr(wr.err, fullPath)], fs, {rd.phys}, {})
            ELSE Outcome([path |-> fullPath, size |-> BLen(newContent),
                          success |-> TRUE],
                         wr.fs, {rd.phys}, {wr.phys})
        Replaced(fullPath, rd, newContent) ==
            Written(fullPath, rd, newContent, WriteFile(fs, fullPath, newContent))
        Counted(oa, na, fullPath, rd, count) ==
            IF count > 1
            THEN Outcome([error |-> ErrVal("old_string found %d times in file, must be unique",
                                           <<>>, count),
                          path |-> fullPath, occurrences |-> count],
                         fs, {rd.phys}, {})
            ELSE Replaced(fullPath, rd,
                          Bytes(ReplaceFirst(rd.content.s, oa.s, na.s), rd.content.pad))
        Edit(pa, oa, na, fullPath, rd) ==
            IF ~pa.ok \/ pa.s = <<>> THEN Failure(fs, "path is required")
            ELSE IF ~oa.ok THEN Failure(fs, "old_string is required")
            ELSE IF ~na.ok THEN Failure(fs, "new_string is required")
            ELSE IF ~isPathAllowed(fullPath)
                 THEN Failure(fs, "path is outside allowed directory")
            ELSE IF rd.err # ""
                 THEN IF IsNotExist(rd.err)
                      THEN Outcome([error |-> ErrVal("file not found: %s", pa.s, 0)],
                                   fs, {}, {})
                      ELSE Outcome([error |-> SysErr(rd.err, fullPath)], fs, {}, {})
            ELSE IF ~Contains(rd.content, oa.s)
                 THEN Outcome([error |-> ErrVal("old_string not found in file", <<>>, 0),
                               path |-> fullPath], fs, {rd.phys}, {})
            ELSE Counted(oa, na, fullPath, rd, Count(rd.content, oa.s))
        At(pa, oa, na, fullPath) == Edit(pa, oa, na, fullPath, ReadFile(fs, fullPath))
        With(pa, oa, na) == At(pa, oa, na, resolvePath(pa.s))
    IN  With(AsString(args, "path"), AsString(args, "old_string"),
             AsString(args, "new_string"))

\* createDirectory refusing a directory that exists, as os.Mkdir would.
createDirectoryOnce(fs, args) ==
    LET Made(fullPath, mk) ==
            IF mk.err # ""
            THEN Outcome([error |-> SysErr(mk.err, fullPath)], fs, {}, {})
            ELSE IF mk.made = {}
                 THEN Outcome([error |-> SysErr("file exists", fullPath)], fs, {}, {})
            ELSE Outcome([path |-> fullPath, success |-> TRUE], mk.fs, {}, mk.made)
        Create(pa, fullPath) ==
            IF ~pa.ok \/ pa.s = <<>> THEN Failure(fs, "path is required")
            ELSE IF ~isPathAllowed(fullPath)
                 THEN Failure(fs, "path is outside allowed directory")
            ELSE Made(fullPath, MkdirAll(fs, fullPath))
        With(pa) == Create(pa, resolvePath(pa.s))
    IN  With(AsString(args, "path"))

\* createDirectory
createDirectory(fs, args) ==
    LET Made(fullPath, mk) ==
            IF mk.err # ""
            THEN Outcome([error |-> SysErr(mk.err, fullPath)], fs, {}, {})
            ELSE Outcome([path |-> fullPath, success |-> TRUE], mk.fs, {}, mk.made)
        Create(pa, fullPath) ==
            IF ~pa.ok \/ pa.s = <<>> THEN Failure(fs, "path is required")
            ELSE IF ~isPathAllowed(fullPath)
                 THEN Failure(fs, "path is outside allowed directory")
            ELSE Made(fullPath, MkdirAll(fs, fullPath))
        With(pa) == Create(pa, resolvePath(pa.s))
    IN  With(AsString(args, "path"))

\* Execute
Execute(fs, name, args) ==
    CASE name = "read_file" -> readFile(fs, args)
      [] name = "list_directory" -> listDirectory(fs, args)
      [] name = "glob_search" -> globSearch(fs, args)
      [] name = "write_file" -> writeFile(fs, args)
      [] name = "edit_file" -> editFile(fs, args)
      [] name = "create_directory" -> createDirectory(fs, args)
      [] OTHER -> Outcome([error |-> ErrVal("unknown tool: %s", <<>>, 0)], fs, {}, {})

(***************************************************************************)
(* State.                                                                  *)
(***************************************************************************)
\* The models the user can switch between, in the order of the switch.
ModelFlash20 == "gemini-2.0-flash"
ModelFlash25 == "gemini-2.5-flash"
ModelPro25 == "gemini-2.5-pro"
ModelFlash3 == "gemini-3-flash-preview"
ModelPro3 == "gemini-3-pro-preview"

availableModels == <<ModelFlash20, ModelFlash25, ModelPro25, ModelFlash3, ModelPro3>>

VARIABLES
    \* the file system and what SpecExec observes of the executor
    fs,              \* the file system
    prevFs,          \* the file system before the last call of SpecExec
    lastCall,        \* the last call of SpecExec: [name, args]
    lastOut,         \* what it returned and touched: [result, reads, writes]
    ops,             \* calls SpecExec made so far
    \* the fields of the Bubble Tea model
    messages,        \* model.messages
    conversation,    \* model.conversation
    waiting,         \* model.waiting
    streaming,       \* model.streaming
    streamBuffer,    \* model.streamBuffer
    streamToolsUsed, \* model.streamToolsUsed
    activeTools,     \* model.activeTools
    streamChan,      \* model.streamChan: the number of a channel, 0 for nil
    err,             \* model.err: "" for nil
    \* the run time
    chans,           \* the channels made so far: [buf, closed]
    prods,           \* the streamInBackground goroutines, one per channel
    cmds,            \* the waitForStreamEvent commands in flight
    crashed,         \* the program panicked
    \* history, read by the properties only
    produced,        \* per channel, the events pushed into it
    execLog,         \* the calls the dispatcher gave to Execute, in order
    dispatches,      \* the function-call batches handled
    cycleLog,        \* the cycles started: one entry per accepted Enter
    lastKey,         \* what the last Enter did: "started", "ignored", "empty"
    \* the settings of the Bubble Tea model
    thinkingEnabled, \* model.thinkingEnabled
    currentModel,    \* model.currentModel
    keys             \* Ctrl+T and Ctrl+G presses so far

execVars == <<fs, prevFs, lastCall, lastOut, ops>>

modelVars ==
    <<messages, conversation, waiting, streaming, streamBuffer,
      streamToolsUsed, activeTools, streamChan, err>>

runVars == <<chans, prods, cmds, crashed>>

histVars == <<produced, execLog, dispatches, cycleLog, lastKey>>

keyVars == <<thinkingEnabled, currentModel, keys>>

agentVars == <<modelVars, runVars, histVars, keyVars>>

vars == <<execVars, agentVars>>

(***************************************************************************)
(* The file system at start: the root /r with a file, a directory, a link  *)
(* to a file outside the root and a link to a directory outside the root;  *)
(* outside the root a file /s, a directory /o with a file, and a file /ra  *)
(* whose name begins like the root's.  Link targets are absolute, are no   *)
(* links and lie under no link.                                            *)
(***************************************************************************)
InitFs ==
    (<<"/">> :> DirNode)
    @@ (<<"/", "r">> :> DirNode)
    @@ (<<"/", "r", "/", "f">> :> FileNode(Bytes(<<"x", "y", "x">>, 0)))
    @@ (<<"/", "r", "/", "d">> :> DirNode)
    @@ (<<"/", "r", "/", "l">> :> LinkNode(<<"/", "s">>))
    @@ (<<"/", "r", "/", "l", "d">> :> LinkNode(<<"/", "o">>))
    @@ (<<"/", "s">> :> FileNode(Bytes(<<"s">>, 0)))
    @@ (<<"/", "o">> :> DirNode)
    @@ (<<"/", "o", "/", "f">> :> FileNode(Bytes(<<"s">>, 0)))
    @@ (<<"/", "r", "a">> :> FileNode(Bytes(<<"s">>, 0)))

NoCall == [name |-> "", args |-> <<>>]
NoOut == [result |-> <<>>, reads |-> {}, writes |-> {}]

(***************************************************************************)
(* The calls Execute is given: every tool and an unknown name, the path    *)
(* missing, not a string, empty, relative, absolute, with "." and ".."     *)
(* elements, inside and outside the root, through the links, and the       *)
(* other arguments present or missing.                                     *)
(***************************************************************************)
TestPaths ==
    {<<"a">>,
     <<"d", "/", "a">>,
     <<"f">>,
     <<"d">>,
     <<"l">>,
     <<"l", "d", "/", "f">>,
     <<".">>,
     <<".", ".">>,
     <<".", ".", "/", "s">>,
     <<"/", "s">>,
     <<"/", "r", "a">>,
     <<"/", "r", "/", ".", ".", "/", "s">>,
     <<".", ".", "a">>,
     <<"/", "r", "/", ".", ".", "a">>}

TestPatterns == {<<"*">>, <<"l", "d", "/", "*">>, <<"*", "*", "/", "f">>, <<"[">>}

PathValues == {StrVal(p) : p \in TestPaths} \cup {StrVal(<<>>), NumVal}

PathArgs == {("path" :> v) : v \in PathValues} \cup {<<>>}

\* Calls with a required argument other than the path missing: on a path
\* outside the root and on one inside.
FewPaths == {StrVal(<<".", ".", "/", "s">>), StrVal(<<"f">>)}

WriteArgs ==
    {("path" :> v) @@ ("content" :> StrVal(<<"y">>)) : v \in PathValues}
    \cup {("path" :> v) : v \in FewPaths}
    \cup {("path" :> StrVal(<<"f">>)) @@ ("content" :> NumVal)}
    \cup {<<>>}

EditArgs ==
    {("path" :> v) @@ ("old_string" :> StrVal(<<"y">>)) @@ ("new_string" :> StrVal(<<"a">>)) :
        v \in PathValues}
    \cup {("path" :> v) @@ ("old_string" :> StrVal(<<"x">>)) @@ ("new_string" :> StrVal(<<"a">>)) :
        v \in FewPaths}
    \cup {("path" :> v) @@ ("old_string" :> StrVal(<<"y">>)) : v \in FewPaths}
    \cup {("path" :> v) : v \in FewPaths}
    \cup {("path" :> StrVal(<<"f">>)) @@ ("old_string" :> o) @@ ("new_string" :> n) :
            o \in {StrVal(<<"y">>), NumVal}, n \in {StrVal(<<"a">>), NumVal}}
    \cup {<<>>}

GlobArgs ==
    {("pattern" :> StrVal(p)) : p \in TestPatterns}
    \cup {("pattern" :> NumVal), <<>>}

PathTools == {"read_file", "list_directory", "write_file", "edit_file", "create_directory"}

ArgsOf(name) ==
    CASE name = "write_file" -> WriteArgs
      [] name = "edit_file" -> EditArgs
      [] name = "glob_search" -> GlobArgs
      [] name \in {"read_file", "list_directory", "create_directory"} -> PathArgs
      [] OTHER -> {<<>>}

ToolNames == PathTools \cup {"glob_search", "delete_file"}

(***************************************************************************)
(* SpecExec: the executor alone, called MaxOps times with any of the       *)
(* calls above.                                                            *)
(***************************************************************************)
Init ==
    /\ fs = InitFs
    /\ prevFs = InitFs
    /\ lastCall = NoCall
    /\ lastOut = NoOut
    /\ ops = 0
    /\ messages = <<>>
    /\ conversation = <<>>
    /\ waiting = FALSE
    /\ streaming = FALSE
    /\ streamBuffer = <<>>
    /\ streamToolsUsed = <<>>
    /\ activeTools = <<>>
    /\ streamChan = 0
    /\ err = ""
    /\ chans = <<>>
    /\ prods = <<>>
    /\ cmds = <<>>
    /\ crashed = FALSE
    /\ produced = <<>>
    /\ execLog = <<>>
    /\ dispatches = <<>>
    /\ cycleLog = <<>>
    /\ lastKey = ""
    /\ thinkingEnabled = FALSE
    /\ currentModel = ModelFlash20
    /\ keys = 0

\* One Execute call.
ExecuteCall ==
    LET Done(name, args, out) ==
            /\ fs' = out.fs
            /\ prevFs' = fs
            /\ lastCall' = [name |-> name, args |-> args]
            /\ lastOut' = [result |-> out.result, reads |-> out.reads,
                           writes |-> out.writes]
            /\ ops' = ops + 1
    IN  /\ ops < MaxOps
        /\ \E name \in ToolNames : \E args \in ArgsOf(name) :
              Done(name, args, Execute(fs, name, args))
        /\ UNCHANGED agentVars

NextExec == ExecuteCall

SpecExec == Init /\ [][NextExec]_vars

(***************************************************************************)
(* Properties of the executor, checked under SpecExec.                     *)
(***************************************************************************)
\* The lexically normalised absolute form of a path argument.
LexAbs(p) == IF IsAbs(p) THEN Clean(p) ELSE Clean(workingDir \o <<"/">> \o p)

\* q is the directory root or lies below it.
Under(root, q) == q = root \/ HasPrefix(q, root \o <<"/">>)

HasStr(args, k) == k \in DOMAIN args /\ args[k].t = "string"

\* The last call gave a non-empty string as its path.
PathGiven == HasStr(lastCall.args, "path") /\ lastCall.args["path"].v # <<>>

\* The path the last call is about; list_directory takes "." for a path
\* that is missing, empty or no string.
CallPath ==
    IF PathGiven THEN lastCall.args["path"].v ELSE <<".">>

\* The last call is a path-taking operation on a path.
PathCall ==
    /\ lastCall.name \in PathTools
    /\ PathGiven \/ lastCall.name = "list_directory"

\* The required arguments other than the path are strings.
OtherArgsGiven ==
    /\ lastCall.name = "write_file" => HasStr(lastCall.args, "content")
    /\ lastCall.name = "edit_file" =>
          HasStr(lastCall.args, "old_string") /\ HasStr(lastCall.args, "new_string")

IsError(r, msg) == "error" \in DOMAIN r /\ r["error"].msg = msg

OutsideError == IsError(lastOut.result, "path is outside allowed directory")

Untouched == fs = prevFs /\ lastOut.reads = {} /\ lastOut.writes = {}

\* C1 as stated: every path-taking operation on a path whose normalised
\* absolute form lies outside the root returns the error "path is outside
\* allowed directory" and leaves the file system untouched.
C1_OutsideRejected ==
    (PathCall /\ ~Under(workingDir, LexAbs(CallPath)))
        => (OutsideError /\ Untouched)

\* C1 amended: the same when the other required arguments of write_file
\* (content) and edit_file (old_string, new_string) are strings; when one
\* of them is missing the result is that argument's "is required" error,
\* and in both cases nothing is read, created or written.
C1_OutsideRejectedArgsGiven ==
    (PathCall /\ ~Under(workingDir, LexAbs(CallPath)))
        => /\ Untouched
           /\ OtherArgsGiven => OutsideError
           /\ ~OtherArgsGiven =>
                 \/ IsError(lastOut.result, "content is required")
                 \/ IsError(lastOut.result, "old_string is required")
                 \/ IsError(lastOut.result, "new_string is required")

\* A write to the existing file /s outside the root, by its absolute
\* path and with content given, was rejected.
C1_Witness ==
    /\ lastCall.name = "write_file"
    /\ PathGiven /\ CallPath = <<"/", "s">> /\ OtherArgsGiven
    /\ OutsideError
    /\ fs[<<"/", "s">>] = FileNode(Bytes(<<"s">>, 0))

\* C2: no call reads or writes an object outside the root.
C2_NoOutsideAccess ==
    \A q \in lastOut.reads \cup lastOut.writes : Under(workingDir, q)

\* C3: a path-taking operation on a path that resolves to the root or
\* below it is not rejected by the containment check.
C3_InsidePasses ==
    (PathCall /\ OtherArgsGiven /\ Under(workingDir, LexAbs(CallPath)))
        => ~OutsideError

(***************************************************************************)
(* The agent loop (main.go, streaming version): conversation data.         *)
(***************************************************************************)
\* The capacity of a stream's channel.
ChanCap == 10

\* A nil *genai.FunctionCall and a nil *genai.FunctionResponse.
NoFC == [name |-> "", args |-> <<>>]
NoFR == [name |-> "", response |-> <<>>]

\* genai.Part: text, the thought flag, a function call with its opaque
\* thought signature, a function response.
TextPart(t) == [text |-> t, thought |-> FALSE, fc |-> NoFC, sig |-> "", fr |-> NoFR]
ThoughtPart(t) == [text |-> t, thought |-> TRUE, fc |-> NoFC, sig |-> "", fr |-> NoFR]
CallPart(call, sig) ==
    [text |-> <<>>, thought |-> FALSE, fc |-> call, sig |-> sig, fr |-> NoFR]

\* genai.NewPartFromFunctionResponse
NewPartFromFunctionResponse(name, result) ==
    [text |-> <<>>, thought |-> FALSE, fc |-> NoFC, sig |-> "",
     fr |-> [name |-> name, response |-> result]]

\* genai.Content
Content(role, parts) == [role |-> role, parts |-> parts]

UserTurn(text) == Content("user", <<TextPart(text)>>)
ModelTurn(text) == Content("model", <<TextPart(text)>>)

\* message
Message(role, content, thinking, toolsUsed) ==
    [role |-> role, content |-> content, thinking |-> thinking,
     toolsUsed |-> toolsUsed]

\* streamEvent
Event(chunk, thinking, done, e, calls, conv) ==
    [chunk |-> chunk, thinking |-> thinking, done |-> done, err |-> e,
     functionCalls |-> calls, conversation |-> conv]

\* The tea.Msg a command returns; from is the channel it was read from.
NoMsg ==
    [type |-> "", chunk |-> <<>>, fullContent |-> <<>>, thinking |-> <<>>,
     toolsUsed |-> <<>>, err |-> "", calls |-> <<>>, conversation |-> <<>>,
     from |-> 0]

\* strings.TrimSpace
RECURSIVE TrimLeft(_)
TrimLeft(s) ==
    IF s # <<>> /\ Head(s) = " " THEN TrimLeft(Tail(s)) ELSE s

RECURSIVE TrimRight(_)
TrimRight(s) ==
    IF s # <<>> /\ s[Len(s)] = " " THEN TrimRight(SubSeq(s, 1, Len(s) - 1)) ELSE s

TrimSpace(s) == TrimRight(TrimLeft(s))

\* s without its k-th element.
Remove(s, k) == SubSeq(s, 1, k - 1) \o SubSeq(s, k + 1, Len(s))

(***************************************************************************)
(* What the environment supplies: the text in the text area when Enter is  *)
(* pressed, and the partial responses of the backend.                      *)
(***************************************************************************)
Inputs == {<<"h">>, <<" ", "a", " ">>, <<" ">>, <<>>}

CallWrite ==
    [name |-> "write_file",
     args |-> ("path" :> StrVal(<<"a">>)) @@ ("content" :> StrVal(<<"y">>))]

CallRead == [name |-> "read_file", args |-> ("path" :> StrVal(<<"a">>))]

\* Partial responses without a function call: thought text, then text.
TextResponses ==
    {<<ThoughtPart(<<"t">>), TextPart(<<"h">>)>>}

\* Partial responses with a function call: one call; text and two calls;
\* a read of a file that may not exist yet, followed by the write.
CallResponses ==
    {<<CallPart(CallWrite, "s1")>>,
     <<TextPart(<<"i">>), CallPart(CallWrite, "s1"), CallPart(CallRead, "s2")>>,
     <<CallPart(CallRead, "s2"), CallPart(CallWrite, "s1")>>}

\* GenerateContentResponse.FunctionCalls(): the calls of the parts that
\* carry one.
FunctionCalls(resp) ==
    LET withCall == SelectSeq(resp, LAMBDA part : part.fc # NoFC) IN
    [i \in 1..Len(withCall) |-> withCall[i].fc]

(***************************************************************************)
(* Starting a stream.                                                      *)
(***************************************************************************)
\* waitForStreamEvent: the command closes over the model as the handler
\* that made it returns it, and reads the channel, the buffer and the tool
\* list from there.
waitForStreamEvent(ch, buffer, toolsUsed) ==
    [st |-> "wait", ch |-> ch, buffer |-> buffer, toolsUsed |-> toolsUsed,
     msg |-> NoMsg]

\* The locals of streamInBackground when it starts; resps records the
\* partial responses the iterator has yielded so far.  Its receiver is the
\* copy of the model the handler that started it worked on, which no later
\* handler writes to: the settings it reads for its request are those of
\* the start.
NewProducer(conv, toolsUsed) ==
    [pc |-> "recv", conversation |-> conv, toolsUsed |-> toolsUsed,
     fullText |-> <<>>, thinkingText |-> <<>>, functionCalls |-> <<>>,
     functionCallParts |-> <<>>, todo |-> <<>>, ev |-> Event(<<>>, <<>>, FALSE, "", <<>>, <<>>),
     nresp |-> 0, failed |-> FALSE, resps |-> <<>>,
     includeThoughts |-> thinkingEnabled, model |-> currentModel]

\* startStreaming: a new channel, the goroutine on it and the command
\* that waits for its first event; rest are the other commands in flight.
startStreaming(conv, toolsUsed, rest) ==
    LET ch == Len(chans) + 1 IN
    /\ chans' = Append(chans, [buf |-> <<>>, closed |-> FALSE])
    /\ streamChan' = ch
    /\ streamToolsUsed' = toolsUsed
    /\ prods' = Append(prods, NewProducer(conv, toolsUsed))
    /\ produced' = Append(produced, <<>>)
    /\ cmds' = Append(rest, waitForStreamEvent(ch, streamBuffer', toolsUsed))

\* sendMessage with the user turn appended to the model's own history.
sendMessageCommitting(userMsg) ==
    /\ conversation' = Append(conversation, UserTurn(userMsg))
    /\ startStreaming(conversation', <<>>, cmds)

\* sendMessage: the user turn is appended to a local history only.
sendMessage(userMsg) ==
    /\ UNCHANGED conversation
    /\ startStreaming(Append(conversation, UserTurn(userMsg)), <<>>, cmds)

\* continueWithFunctionResults
continueWithFunctionResults(conv, toolsUsed, rest) ==
    startStreaming(conv, toolsUsed, rest)

(***************************************************************************)
(* streamInBackground, one step per receive from the backend and per       *)
(* channel operation.                                                      *)
(***************************************************************************)
\* The part loop sending the text of every part, thought or not.
RECURSIVE RunPartsChunkingThoughts(_)
RunPartsChunkingThoughts(p) ==
    IF p.todo = <<>> THEN [p EXCEPT !.pc = "recv"]
    ELSE LET part == Head(p.todo) IN
         IF part.text # <<>> THEN [p EXCEPT !.pc = "chunk"]
         ELSE IF part.fc # NoFC
              THEN RunPartsChunkingThoughts(
                       [p EXCEPT !.todo = Tail(@),
                                 !.functionCallParts = Append(@, part)])
         ELSE RunPartsChunkingThoughts([p EXCEPT !.todo = Tail(@)])

\* The part loop of one partial response, up to its next channel send.
RECURSIVE RunParts(_)
RunParts(p) ==
    IF p.todo = <<>> THEN [p EXCEPT !.pc = "recv"]
    ELSE LET part == Head(p.todo) IN
         IF part.thought
         THEN RunParts([p EXCEPT !.todo = Tail(@),
                                 !.thinkingText = @ \o part.text])
         ELSE IF part.text # <<>> THEN [p EXCEPT !.pc = "chunk"]
         ELSE IF part.fc # NoFC
              THEN RunParts([p EXCEPT !.todo = Tail(@),
                                      !.functionCallParts = Append(@, part)])
         ELSE RunParts([p EXCEPT !.todo = Tail(@)])

\* The event sent when the stream is exhausted, without the thought text.
FinalEventWithoutThinking(p) ==
    IF Len(p.functionCalls) > 0
    THEN LET parts == (IF Len(p.fullText) > 0 THEN <<TextPart(p.fullText)>> ELSE <<>>)
                      \o p.functionCallParts
             newConversation == Append(p.conversation, Content("model", parts))
         IN  Event(<<>>, <<>>, TRUE, "", p.functionCalls, newConversation)
    ELSE Event(<<>>, <<>>, TRUE, "", <<>>, <<>>)

\* The event sent when the stream is exhausted, the thought text kept as
\* the first part of the model turn.
FinalEventThoughtInTurn(p) ==
    IF Len(p.functionCalls) > 0
    THEN LET parts == (IF Len(p.thinkingText) > 0
                       THEN <<ThoughtPart(p.thinkingText)>> ELSE <<>>)
                      \o (IF Len(p.fullText) > 0 THEN <<TextPart(p.fullText)>> ELSE <<>>)
                      \o p.functionCallParts
             newConversation == Append(p.conversation, Content("model", parts))
         IN  Event(<<>>, <<>>, TRUE, "", p.functionCalls, newConversation)
    ELSE Event(<<>>, p.thinkingText, TRUE, "", <<>>, <<>>)

\* The event sent when the stream is exhausted, the function-call parts
\* of the model turn built anew from the calls.
FinalEventFromCalls(p) ==
    IF Len(p.functionCalls) > 0
    THEN LET parts == (IF Len(p.fullText) > 0 THEN <<TextPart(p.fullText)>> ELSE <<>>)
                      \o [n \in 1..Len(p.functionCalls) |->
                             CallPart(p.functionCalls[n], "")]
             newConversation == Append(p.conversation, Content("model", parts))
         IN  Event(<<>>, <<>>, TRUE, "", p.functionCalls, newConversation)
    ELSE Event(<<>>, p.thinkingText, TRUE, "", <<>>, <<>>)

\* The event sent when the stream is exhausted.
FinalEvent(p) ==
    IF Len(p.functionCalls) > 0
    THEN LET parts == (IF Len(p.fullText) > 0 THEN <<TextPart(p.fullText)>> ELSE <<>>)
                      \o p.functionCallParts
             newConversation == Append(p.conversation, Content("model", parts))
         IN  Event(<<>>, <<>>, TRUE, "", p.functionCalls, newConversation)
    ELSE Event(<<>>, p.thinkingText, TRUE, "", <<>>, <<>>)

\* After a terminal event is sent the function returns.
PcAfterSendContinuing(ev) == IF ev.err # "" THEN "recv" ELSE "close"

PcAfterSend(ev) == "close"

\* The next (resp, err) of GenerateContentStream: an error, a partial
\* response, or the end of the stream.
ProdRecv(i) ==
    LET p == prods[i] IN
    /\ ~crashed
    /\ p.pc = "recv"
    /\ \/ prods' = [prods EXCEPT ![i] =
                       [p EXCEPT !.pc = "send", !.failed = TRUE,
                                 !.ev = Event(<<>>, <<>>, FALSE, "transport error", <<>>, <<>>)]]
       \/ /\ p.nresp < MaxResps
          /\ \E resp \in TextResponses \cup
                         (IF Len(prods) < MaxStreams THEN CallResponses ELSE {}) :
                prods' = [prods EXCEPT ![i] =
                             RunParts([p EXCEPT !.functionCalls = @ \o FunctionCalls(resp),
                                                !.todo = resp,
                                                !.nresp = @ + 1,
                                                !.resps = Append(@, resp)])]
       \/ prods' = [prods EXCEPT ![i] = [p EXCEPT !.pc = "send", !.ev = FinalEvent(p)]]
    /\ UNCHANGED <<execVars, keyVars, modelVars, chans, cmds, crashed, histVars>>

\* The send of a chunk on a channel without a capacity.
ProdChunkUnbounded(i) ==
    LET p == prods[i]
        part == Head(p.todo)
        ev == Event(part.text, <<>>, FALSE, "", <<>>, <<>>)
    IN  /\ ~crashed
        /\ p.pc = "chunk"
        /\ chans' = [chans EXCEPT ![i].buf = Append(@, ev)]
        /\ produced' = [produced EXCEPT ![i] = Append(@, ev)]
        /\ prods' = [prods EXCEPT ![i] =
                        RunParts([p EXCEPT !.fullText = @ \o part.text,
                                           !.todo = Tail(@)])]
        /\ UNCHANGED <<execVars, keyVars, modelVars, cmds, crashed, execLog, dispatches, cycleLog, lastKey>>

\* ch <- streamEvent{chunk: part.Text}: blocks while the channel is full.
ProdChunk(i) ==
    LET p == prods[i]
        part == Head(p.todo)
        ev == Event(part.text, <<>>, FALSE, "", <<>>, <<>>)
    IN  /\ ~crashed
        /\ p.pc = "chunk"
        /\ Len(chans[i].buf) < ChanCap
        /\ chans' = [chans EXCEPT ![i].buf = Append(@, ev)]
        /\ produced' = [produced EXCEPT ![i] = Append(@, ev)]
        /\ prods' = [prods EXCEPT ![i] =
                        RunParts([p EXCEPT !.fullText = @ \o part.text,
                                           !.todo = Tail(@)])]
        /\ UNCHANGED <<execVars, keyVars, modelVars, cmds, crashed, execLog, dispatches, cycleLog, lastKey>>

\* The send of the error or done event, with the extended history of a
\* done event also stored in the model.
ProdSendCommitting(i) ==
    LET p == prods[i] IN
    /\ ~crashed
    /\ p.pc = "send"
    /\ Len(chans[i].buf) < ChanCap
    /\ chans' = [chans EXCEPT ![i].buf = Append(@, p.ev)]
    /\ produced' = [produced EXCEPT ![i] = Append(@, p.ev)]
    /\ prods' = [prods EXCEPT ![i].pc = PcAfterSend(p.ev)]
    /\ conversation' = IF p.ev.conversation # <<>> THEN p.ev.conversation
                       ELSE conversation
    /\ UNCHANGED <<execVars, keyVars, messages, waiting, streaming, streamBuffer,
                   streamToolsUsed, activeTools, streamChan, err, cmds, crashed,
                   execLog, dispatches, cycleLog, lastKey>>

\* The send of the error or done event.
ProdSend(i) ==
    LET p == prods[i] IN
    /\ ~crashed
    /\ p.pc = "send"
    /\ Len(chans[i].buf) < ChanCap
    /\ chans' = [chans EXCEPT ![i].buf = Append(@, p.ev)]
    /\ produced' = [produced EXCEPT ![i] = Append(@, p.ev)]
    /\ prods' = [prods EXCEPT ![i].pc = PcAfterSend(p.ev)]
    /\ UNCHANGED <<execVars, keyVars, modelVars, cmds, crashed, execLog, dispatches, cycleLog, lastKey>>

\* defer close(ch)
ProdClose(i) ==
    /\ ~crashed
    /\ prods[i].pc = "close"
    /\ chans' = [chans EXCEPT ![i].closed = TRUE]
    /\ prods' = [prods EXCEPT ![i].pc = "done"]
    /\ UNCHANGED <<execVars, keyVars, modelVars, cmds, crashed, histVars>>

(***************************************************************************)
(* waitForStreamEvent: the command run by the Bubble Tea runtime.          *)
(***************************************************************************)
\* The message for a received event, without the test of event.err.
MsgOfIgnoringErr(event, c) ==
    IF event.done
    THEN IF Len(event.functionCalls) > 0
         THEN [NoMsg EXCEPT !.type = "streamFunctionCallMsg",
                            !.calls = event.functionCalls,
                            !.conversation = event.conversation,
                            !.from = c.ch]
         ELSE [NoMsg EXCEPT !.type = "streamDoneMsg",
                            !.fullContent = c.buffer,
                            !.thinking = event.thinking,
                            !.toolsUsed = c.toolsUsed,
                            !.from = c.ch]
    ELSE [NoMsg EXCEPT !.type = "streamChunkMsg", !.chunk = event.chunk,
                       !.from = c.ch]

\* The message for a received event.
MsgOf(event, c) ==
    IF event.err # ""
    THEN [NoMsg EXCEPT !.type = "streamErrorMsg", !.err = event.err,
                       !.from = c.ch]
    ELSE IF event.done
    THEN IF Len(event.functionCalls) > 0
         THEN [NoMsg EXCEPT !.type = "streamFunctionCallMsg",
                            !.calls = event.functionCalls,
                            !.conversation = event.conversation,
                            !.from = c.ch]
         ELSE [NoMsg EXCEPT !.type = "streamDoneMsg",
                            !.fullContent = c.buffer,
                            !.thinking = event.thinking,
                            !.toolsUsed = c.toolsUsed,
                            !.from = c.ch]
    ELSE [NoMsg EXCEPT !.type = "streamChunkMsg", !.chunk = event.chunk,
                       !.from = c.ch]

\* The command taking the newest event of the channel instead of the oldest.
CmdRecvNewest(k) ==
    LET c == cmds[k] IN
    /\ ~crashed
    /\ c.st = "wait"
    /\ IF c.ch = 0
       THEN /\ cmds' = [cmds EXCEPT ![k] =
                           [c EXCEPT !.st = "msg",
                                     !.msg = [NoMsg EXCEPT !.type = "streamErrorMsg",
                                                           !.err = "no stream channel"]]]
            /\ UNCHANGED chans
       ELSE IF chans[c.ch].buf # <<>>
       THEN /\ chans' = [chans EXCEPT ![c.ch].buf = SubSeq(@, 1, Len(@) - 1)]
            /\ cmds' = [cmds EXCEPT ![k] =
                           [c EXCEPT !.st = "msg",
                                     !.msg = MsgOf(chans[c.ch].buf[Len(chans[c.ch].buf)], c)]]
       ELSE /\ chans[c.ch].closed
            /\ cmds' = [cmds EXCEPT ![k] =
                           [c EXCEPT !.st = "msg",
                                     !.msg = [NoMsg EXCEPT !.type = "streamDoneMsg",
                                                           !.fullContent = c.buffer,
                                                           !.toolsUsed = c.toolsUsed,
                                                           !.from = c.ch]]]
            /\ UNCHANGED chans
    /\ UNCHANGED <<execVars, keyVars, modelVars, prods, crashed, histVars>>

\* The command returns its message: for a nil channel at once, for a
\* buffered event after receiving it, for a closed and drained channel the
\* done message of the !ok branch; otherwise it blocks.
CmdRecv(k) ==
    LET c == cmds[k] IN
    /\ ~crashed
    /\ c.st = "wait"
    /\ IF c.ch = 0
       THEN /\ cmds' = [cmds EXCEPT ![k] =
                           [c EXCEPT !.st = "msg",
                                     !.msg = [NoMsg EXCEPT !.type = "streamErrorMsg",
                                                           !.err = "no stream channel"]]]
            /\ UNCHANGED chans
       ELSE IF chans[c.ch].buf # <<>>
       THEN /\ chans' = [chans EXCEPT ![c.ch].buf = Tail(@)]
            /\ cmds' = [cmds EXCEPT ![k] =
                           [c EXCEPT !.st = "msg",
                                     !.msg = MsgOf(Head(chans[c.ch].buf), c)]]
       ELSE /\ chans[c.ch].closed
            /\ cmds' = [cmds EXCEPT ![k] =
                           [c EXCEPT !.st = "msg",
                                     !.msg = [NoMsg EXCEPT !.type = "streamDoneMsg",
                                                           !.fullContent = c.buffer,
                                                           !.toolsUsed = c.toolsUsed,
                                                           !.from = c.ch]]]
            /\ UNCHANGED chans
    /\ UNCHANGED <<execVars, keyVars, modelVars, prods, crashed, histVars>>

(***************************************************************************)
(* Update.                                                                 *)
(***************************************************************************)
\* The test of the Enter key for a cycle in flight, looking at waiting only.
cycleInFlightWaitingOnly == waiting /\ ~streaming

\* m.waiting || m.streaming
cycleInFlight == waiting \/ streaming

\* The record of the running cycle with its end written in.
EndCycle(how, from, post, nmsgs) ==
    [cycleLog EXCEPT ![Len(cycleLog)] =
        [@ EXCEPT !.end = how, !.endFrom = from, !.post = post, !.msgs1 = nmsgs]]

\* case tea.KeyEnter, with the text of the textarea
KeyEnter ==
    /\ ~crashed
    /\ \E text \in Inputs :
          LET userInput == TrimSpace(text) IN
          IF cycleInFlight
          THEN /\ lastKey' = "ignored"
               /\ UNCHANGED <<execVars, keyVars, modelVars, runVars, produced, execLog,
                              dispatches, cycleLog>>
          ELSE IF userInput = <<>>
          THEN /\ lastKey' = "empty"
               /\ UNCHANGED <<execVars, keyVars, modelVars, runVars, produced, execLog,
                              dispatches, cycleLog>>
          ELSE /\ Len(cycleLog) < MaxCycles
               /\ Len(prods) < MaxStreams
               /\ messages' = Append(messages, Message("user", userInput, <<>>, <<>>))
               /\ waiting' = TRUE
               /\ streaming' = TRUE
               /\ streamBuffer' = <<>>
               /\ activeTools' = <<>>
               /\ sendMessage(userInput)
               /\ cycleLog' = Append(cycleLog,
                                     [pre |-> conversation, input |-> userInput,
                                      streams |-> <<Len(chans) + 1>>,
                                      msgs0 |-> Len(messages'), msgs1 |-> 0,
                                      end |-> "", endFrom |-> 0, post |-> <<>>])
               /\ lastKey' = "started"
               /\ UNCHANGED <<execVars, keyVars, err, crashed, execLog, dispatches>>

\* nextModel: the model after the current one, the first after the last.
nextModel ==
    IF \E i \in 1..Len(availableModels) : availableModels[i] = currentModel
    THEN LET i == CHOOSE i \in 1..Len(availableModels) :
                      /\ availableModels[i] = currentModel
                      /\ \A j \in 1..(i - 1) : availableModels[j] # currentModel
         IN  availableModels[(i % Len(availableModels)) + 1]
    ELSE availableModels[1]

\* case "ctrl+t"
KeyCtrlT ==
    /\ ~crashed
    /\ keys < MaxKeys
    /\ thinkingEnabled' = ~thinkingEnabled
    /\ keys' = keys + 1
    /\ UNCHANGED <<execVars, modelVars, runVars, histVars, currentModel>>

\* case "ctrl+g" with the goroutines reading the model of the program
\* instead of the copy of the handler that started them.
KeyCtrlGLive ==
    /\ ~crashed
    /\ keys < MaxKeys
    /\ currentModel' = nextModel
    /\ prods' = [i \in 1..Len(prods) |-> [prods[i] EXCEPT !.model = nextModel]]
    /\ keys' = keys + 1
    /\ UNCHANGED <<execVars, modelVars, chans, cmds, crashed, histVars,
                   thinkingEnabled>>

\* case "ctrl+g"
KeyCtrlG ==
    /\ ~crashed
    /\ keys < MaxKeys
    /\ currentModel' = nextModel
    /\ keys' = keys + 1
    /\ UNCHANGED <<execVars, modelVars, runVars, histVars, thinkingEnabled>>

\* case streamChunkMsg returning no command.
UpdateStreamChunkNotWaiting(k) ==
    LET msg == cmds[k].msg IN
    /\ ~crashed
    /\ cmds[k].st = "msg"
    /\ msg.type = "streamChunkMsg"
    /\ streamBuffer' = streamBuffer \o msg.chunk
    /\ cmds' = Remove(cmds, k)
    /\ UNCHANGED <<execVars, keyVars, messages, conversation, waiting, streaming,
                   streamToolsUsed, activeTools, streamChan, err, chans, prods,
                   crashed, histVars>>

\* case streamChunkMsg
UpdateStreamChunk(k) ==
    LET msg == cmds[k].msg IN
    /\ ~crashed
    /\ cmds[k].st = "msg"
    /\ msg.type = "streamChunkMsg"
    /\ streamBuffer' = streamBuffer \o msg.chunk
    /\ cmds' = Append(Remove(cmds, k),
                      waitForStreamEvent(streamChan, streamBuffer', streamToolsUsed))
    /\ UNCHANGED <<execVars, keyVars, messages, conversation, waiting, streaming,
                   streamToolsUsed, activeTools, streamChan, err, chans, prods,
                   crashed, histVars>>

\* The history update of streamDoneMsg with the history started afresh.
CommitExchangeAfresh(conv, userText, content) ==
    <<UserTurn(userText), ModelTurn(content)>>

\* The history update of streamDoneMsg.
CommitExchange(conv, userText, content) ==
    conv \o <<UserTurn(userText), ModelTurn(content)>>

\* case streamDoneMsg with the user turn read from the last entry of
\* messages instead of the one before it.
UpdateStreamDoneLastEntry(k) ==
    LET msg == cmds[k].msg
        content == IF msg.fullContent = <<>> THEN streamBuffer ELSE msg.fullContent
    IN  /\ ~crashed
        /\ cmds[k].st = "msg"
        /\ msg.type = "streamDoneMsg"
        /\ waiting' = FALSE
        /\ streaming' = FALSE
        /\ activeTools' = <<>>
        /\ messages' = Append(messages,
                              Message("assistant", content, msg.thinking, msg.toolsUsed))
        /\ streamBuffer' = <<>>
        /\ conversation' =
              CommitExchange(conversation, messages'[Len(messages')].content, content)
        /\ cmds' = Remove(cmds, k)
        /\ cycleLog' = EndCycle("done", msg.from, conversation', Len(messages'))
        /\ UNCHANGED <<execVars, keyVars, streamToolsUsed, streamChan, err, chans, prods,
                       crashed, produced, execLog, dispatches, lastKey>>

\* case streamDoneMsg
UpdateStreamDone(k) ==
    LET msg == cmds[k].msg
        content == IF msg.fullContent = <<>> THEN streamBuffer ELSE msg.fullContent
    IN  /\ ~crashed
        /\ cmds[k].st = "msg"
        /\ msg.type = "streamDoneMsg"
        /\ waiting' = FALSE
        /\ streaming' = FALSE
        /\ activeTools' = <<>>
        /\ messages' = Append(messages,
                              Message("assistant", content, msg.thinking, msg.toolsUsed))
        /\ streamBuffer' = <<>>
        /\ IF Len(messages') < 2
           THEN crashed' = TRUE /\ UNCHANGED conversation
           ELSE /\ conversation' =
                      CommitExchange(conversation,
                                     messages'[Len(messages') - 1].content, content)
                /\ UNCHANGED crashed
        /\ cmds' = Remove(cmds, k)
        /\ cycleLog' = EndCycle("done", msg.from, conversation', Len(messages'))
        /\ UNCHANGED <<execVars, keyVars, streamToolsUsed, streamChan, err, chans, prods,
                       produced, execLog, dispatches, lastKey>>

\* case streamErrorMsg returning the command that waits for the next event.
UpdateStreamErrorWaiting(k) ==
    LET msg == cmds[k].msg IN
    /\ ~crashed
    /\ cmds[k].st = "msg"
    /\ msg.type = "streamErrorMsg"
    /\ waiting' = FALSE
    /\ streaming' = FALSE
    /\ streamBuffer' = <<>>
    /\ err' = msg.err
    /\ cmds' = Append(Remove(cmds, k),
                      waitForStreamEvent(streamChan, streamBuffer', streamToolsUsed))
    /\ cycleLog' = EndCycle("error", msg.from, conversation, Len(messages))
    /\ UNCHANGED <<execVars, keyVars, messages, conversation, streamToolsUsed, activeTools,
                   streamChan, chans, prods, crashed, produced, execLog,
                   dispatches, lastKey>>

\* case streamErrorMsg
UpdateStreamError(k) ==
    LET msg == cmds[k].msg IN
    /\ ~crashed
    /\ cmds[k].st = "msg"
    /\ msg.type = "streamErrorMsg"
    /\ waiting' = FALSE
    /\ streaming' = FALSE
    /\ streamBuffer' = <<>>
    /\ err' = msg.err
    /\ cmds' = Remove(cmds, k)
    /\ cycleLog' = EndCycle("error", msg.from, conversation, Len(messages))
    /\ UNCHANGED <<execVars, keyVars, messages, conversation, streamToolsUsed, activeTools,
                   streamChan, chans, prods, crashed, produced, execLog,
                   dispatches, lastKey>>

\* The loop over msg.calls with every call run on the file system as it
\* was before the batch.
RECURSIVE RunCallsOnSnapshot(_, _)
RunCallsOnSnapshot(f, calls) ==
    LET Joined(call, out, rest) ==
            [fs |-> IF Len(calls) = 1 THEN out.fs ELSE rest.fs,
             toolNames |-> <<call.name>> \o rest.toolNames,
             functionResponses |->
                 <<NewPartFromFunctionResponse(call.name, out.result)>>
                 \o rest.functionResponses]
        Run(call) ==
            Joined(call, Execute(f, call.name, call.args),
                   RunCallsOnSnapshot(f, Tail(calls)))
    IN  IF calls = <<>>
        THEN [fs |-> f, toolNames |-> <<>>, functionResponses |-> <<>>]
        ELSE Run(Head(calls))

\* The loop over msg.calls leaving at the first result with an "error"
\* key: the calls after it are not run and are answered with that result.
RECURSIVE RunCallsUntilError(_, _)
RunCallsUntilError(f, calls) ==
    LET Joined(call, out, rest) ==
            [fs |-> rest.fs,
             toolNames |-> <<call.name>> \o rest.toolNames,
             functionResponses |->
                 <<NewPartFromFunctionResponse(call.name, out.result)>>
                 \o rest.functionResponses]
        Skipped(out, others) ==
            [fs |-> out.fs,
             toolNames |-> [j \in 1..Len(others) |-> others[j].name],
             functionResponses |->
                 [j \in 1..Len(others) |->
                     NewPartFromFunctionResponse(others[j].name, out.result)]]
        Then(call, out) ==
            Joined(call, out,
                   IF "error" \in DOMAIN out.result
                   THEN Skipped(out, Tail(calls))
                   ELSE RunCallsUntilError(out.fs, Tail(calls)))
        Run(call) == Then(call, Execute(f, call.name, call.args))
    IN  IF calls = <<>>
        THEN [fs |-> f, toolNames |-> <<>>, functionResponses |-> <<>>]
        ELSE Run(Head(calls))

\* The loop over msg.calls: each call runs on the file system the call
\* before it left.
RECURSIVE RunCalls(_, _)
RunCalls(f, calls) ==
    LET Joined(call, out, rest) ==
            [fs |-> rest.fs,
             toolNames |-> <<call.name>> \o rest.toolNames,
             functionResponses |->
                 <<NewPartFromFunctionResponse(call.name, out.result)>>
                 \o rest.functionResponses]
        Then(call, out) == Joined(call, out, RunCalls(out.fs, Tail(calls)))
        Run(call) == Then(call, Execute(f, call.name, call.args))
    IN  IF calls = <<>>
        THEN [fs |-> f, toolNames |-> <<>>, functionResponses |-> <<>>]
        ELSE Run(Head(calls))

\* case streamFunctionCallMsg running the calls and then ending the cycle
\* without another request.
UpdateStreamFunctionCallEnding(k) ==
    LET Handle(msg, run) ==
            /\ streaming' = FALSE
            /\ waiting' = FALSE
            /\ streamBuffer' = <<>>
            /\ fs' = run.fs
            /\ activeTools' = run.toolNames
            /\ streamToolsUsed' = run.toolNames
            /\ cmds' = Remove(cmds, k)
            /\ execLog' = execLog \o
                  [j \in 1..Len(msg.calls) |->
                      [call |-> msg.calls[j],
                       response |-> run.functionResponses[j],
                       disp |-> Len(dispatches) + 1]]
            /\ dispatches' = Append(dispatches,
                                    [from |-> msg.from, calls |-> msg.calls,
                                     conversation |-> msg.conversation,
                                     fsBefore |-> fs, stream |-> 0])
            /\ cycleLog' = EndCycle("done", msg.from, conversation, Len(messages))
        Dispatch(msg) == Handle(msg, RunCalls(fs, msg.calls))
    IN  /\ ~crashed
        /\ cmds[k].st = "msg"
        /\ cmds[k].msg.type = "streamFunctionCallMsg"
        /\ Dispatch(cmds[k].msg)
        /\ UNCHANGED <<keyVars, prevFs, lastCall, lastOut, ops, messages, conversation,
                       streamChan, chans, prods, produced, err, crashed, lastKey>>

\* case streamFunctionCallMsg leaving the text buffer as it is.
UpdateStreamFunctionCallKeepingBuffer(k) ==
    LET Handle(msg, run) ==
            /\ streaming' = TRUE
            /\ streamBuffer' = streamBuffer
            /\ fs' = run.fs
            /\ activeTools' = run.toolNames
            /\ continueWithFunctionResults(
                   Append(msg.conversation, Content("user", run.functionResponses)),
                   run.toolNames, Remove(cmds, k))
            /\ execLog' = execLog \o
                  [j \in 1..Len(msg.calls) |->
                      [call |-> msg.calls[j],
                       response |-> run.functionResponses[j],
                       disp |-> Len(dispatches) + 1]]
            /\ dispatches' = Append(dispatches,
                                    [from |-> msg.from, calls |-> msg.calls,
                                     conversation |-> msg.conversation,
                                     fsBefore |-> fs, stream |-> Len(chans) + 1])
            /\ cycleLog' = [cycleLog EXCEPT ![Len(cycleLog)].streams =
                                                Append(@, Len(chans) + 1)]
        Dispatch(msg) == Handle(msg, RunCalls(fs, msg.calls))
    IN  /\ ~crashed
        /\ cmds[k].st = "msg"
        /\ cmds[k].msg.type = "streamFunctionCallMsg"
        /\ Dispatch(cmds[k].msg)
        /\ UNCHANGED <<keyVars, prevFs, lastCall, lastOut, ops, messages, conversation,
                       waiting, err, crashed, lastKey>>

\* case streamFunctionCallMsg
UpdateStreamFunctionCall(k) ==
    LET Handle(msg, run) ==
            /\ streaming' = TRUE
            /\ streamBuffer' = <<>>
            /\ fs' = run.fs
            /\ activeTools' = run.toolNames
            /\ continueWithFunctionResults(
                   Append(msg.conversation, Content("user", run.functionResponses)),
                   run.toolNames, Remove(cmds, k))
            /\ execLog' = execLog \o
                  [j \in 1..Len(msg.calls) |->
                      [call |-> msg.calls[j],
                       response |-> run.functionResponses[j],
                       disp |-> Len(dispatches) + 1]]
            /\ dispatches' = Append(dispatches,
                                    [from |-> msg.from, calls |-> msg.calls,
                                     conversation |-> msg.conversation,
                                     fsBefore |-> fs, stream |-> Len(chans) + 1])
            /\ cycleLog' = [cycleLog EXCEPT ![Len(cycleLog)].streams =
                                                Append(@, Len(chans) + 1)]
        Dispatch(msg) == Handle(msg, RunCalls(fs, msg.calls))
    IN  /\ ~crashed
        /\ cmds[k].st = "msg"
        /\ cmds[k].msg.type = "streamFunctionCallMsg"
        /\ Dispatch(cmds[k].msg)
        /\ UNCHANGED <<keyVars, prevFs, lastCall, lastOut, ops, messages, conversation,
                       waiting, err, crashed, lastKey>>

(***************************************************************************)
(* The program: the user's Enter key, the streaming goroutines, the        *)
(* commands and the handlers of their messages.                            *)
(***************************************************************************)
Receive == \E i \in 1..Len(prods) : ProdRecv(i)

PushChunk == \E i \in 1..Len(prods) : ProdChunk(i)

PushTerminal == \E i \in 1..Len(prods) : ProdSend(i)

CloseChannel == \E i \in 1..Len(prods) : ProdClose(i)

WaitForStreamEvent == \E k \in 1..Len(cmds) : CmdRecv(k)

StreamChunkMsg == \E k \in 1..Len(cmds) : UpdateStreamChunk(k)

StreamDoneMsg == \E k \in 1..Len(cmds) : UpdateStreamDone(k)

StreamErrorMsg == \E k \in 1..Len(cmds) : UpdateStreamError(k)

StreamFunctionCallMsg == \E k \in 1..Len(cmds) : UpdateStreamFunctionCall(k)

Next ==
    \/ KeyEnter
    \/ Receive
    \/ PushChunk
    \/ PushTerminal
    \/ CloseChannel
    \/ WaitForStreamEvent
    \/ StreamChunkMsg
    \/ StreamDoneMsg
    \/ StreamErrorMsg
    \/ StreamFunctionCallMsg

Spec == Init /\ [][Next]_vars

(***************************************************************************)
(* Properties of the agent loop, checked under Spec.                       *)
(***************************************************************************)
Last(s) == s[Len(s)]

IsPrefix(a, b) == Len(a) <= Len(b) /\ SubSeq(b, 1, Len(a)) = a

Terminal(ev) == ev.done \/ ev.err # ""

\* The goroutines that can still send on their channel.
LiveProducers == {i \in 1..Len(prods) : prods[i].pc \in {"recv", "chunk", "send"}}

\* The cycles started and not ended.
OpenCycles == {c \in 1..Len(cycleLog) : cycleLog[c].end = ""}

\* The cycle a stream belongs to.
CycleOf(i) ==
    CHOOSE c \in 1..Len(cycleLog) :
        \E j \in 1..Len(cycleLog[c].streams) : cycleLog[c].streams[j] = i

\* The dispatches of a cycle.
DispatchesOf(c) ==
    {d \in 1..Len(dispatches) :
        \E j \in 1..Len(cycleLog[c].streams) :
            cycleLog[c].streams[j] = dispatches[d].from}

\* C4: a cycle in which the model makes one function call and then answers
\* in plain text leaves the history as it was before the cycle followed by
\* the user turn, the model's function-call turn, the tool-result turn and
\* the final model turn.
C4_ToolCycleHistory ==
    \A c \in 1..Len(cycleLog) :
        LET cy == cycleLog[c] IN
        (cy.end = "done" /\ Len(cy.streams) = 2
            /\ messages[cy.msgs1].content # <<>>) =>
            \A d \in DispatchesOf(c) :
                Len(dispatches[d].calls) = 1 =>
                    cy.post = cy.pre \o
                        <<UserTurn(cy.input),
                          Last(dispatches[d].conversation),
                          Last(prods[dispatches[d].stream].conversation),
                          ModelTurn(messages[cy.msgs1].content)>>

RECURSIVE FsAfter(_, _, _)
FsAfter(f, calls, j) ==
    IF j = 0 THEN f
    ELSE Execute(FsAfter(f, calls, j - 1), calls[j].name, calls[j].args).fs

\* The response part the j-th call of dispatch d must give.
ExpectedResponse(d, j) ==
    LET Of(call, before) ==
            NewPartFromFunctionResponse(
                call.name, Execute(before, call.name, call.args).result)
    IN  Of(dispatches[d].calls[j],
           FsAfter(dispatches[d].fsBefore, dispatches[d].calls, j - 1))

\* C6: for a Done event with n >= 1 function calls the executor is invoked
\* exactly n times, in the order of the calls and each on the file system
\* the call before left, and then exactly one user turn is appended whose
\* parts are the n function responses in that order.
C6_SequentialDispatch ==
    LET Batch(D, n, mine, expected) ==
            /\ n >= 1
            /\ D.calls = Last(produced[D.from]).functionCalls
            /\ Len(mine) = n
            /\ \A j \in 1..n :
                  /\ mine[j].call = D.calls[j]
                  /\ mine[j].response = expected[j]
            /\ prods[D.stream].conversation =
                   Append(D.conversation, Content("user", expected))
    IN  /\ \A a \in 1..Len(execLog) :
              /\ execLog[a].disp \in 1..Len(dispatches)
              /\ \A b \in a..Len(execLog) : execLog[a].disp <= execLog[b].disp
        /\ \A d \in 1..Len(dispatches) :
              Batch(dispatches[d], Len(dispatches[d].calls),
                    SelectSeq(execLog, LAMBDA e : e.disp = d),
                    [j \in 1..Len(dispatches[d].calls) |-> ExpectedResponse(d, j)])

\* A batch of two calls was dispatched in which the second call read the
\* file the first one wrote.
C6_Witness ==
    \E d \in 1..Len(dispatches) :
        /\ Len(dispatches[d].calls) = 2
        /\ "content" \in DOMAIN ExpectedResponse(d, 2).fr.response
        /\ dispatches[d].fsBefore # fs

\* C7: at most one cycle is in flight: never more than one goroutine that
\* can still send, one command and one open cycle, and an Enter pressed
\* while a cycle is open starts nothing and leaves the messages, the
\* history, the goroutines, the channels and the commands as they were.
C7_OneCycleInFlight ==
    /\ [](/\ Cardinality(LiveProducers) <= 1
          /\ Cardinality(OpenCycles) <= 1
          /\ Len(cmds) <= 1)
    /\ [][(KeyEnter /\ OpenCycles # {}) =>
              UNCHANGED <<keyVars, fs, messages, conversation, waiting, streaming,
                          streamBuffer, streamChan, chans, prods, cmds,
                          cycleLog>>]_vars

\* Enter was pressed and ignored while a goroutine was still sending.
C7_Witness ==
    /\ lastKey = "ignored"
    /\ OpenCycles # {}
    /\ LiveProducers # {}
    /\ Len(chans) >= 1 /\ chans[Len(chans)].buf # <<>>

\* C8: the history only grows at its end: in every step its previous value
\* is a prefix of its new value.
C8_AppendOnly == [][IsPrefix(conversation, conversation')]_vars

\* Two cycles were committed to the history, with different user texts.
C8_Witness ==
    /\ Len(conversation) = 4
    /\ conversation[1] # conversation[3]

\* C9: on every stream the events sent are zero or more chunks followed by
\* at most one terminal event, which is a Done or an Error and never both;
\* nothing is sent after it, and the channel is closed only after it.
C9_StreamShape ==
    \A i \in 1..Len(produced) :
        LET evs == produced[i] IN
        /\ \A j \in 1..Len(evs) :
              /\ ~(evs[j].done /\ evs[j].err # "")
              /\ j < Len(evs) => (~Terminal(evs[j]) /\ evs[j].chunk # <<>>)
        /\ (chans[i].closed \/ prods[i].pc \in {"close", "done"}) =>
              /\ Len(evs) >= 1
              /\ Terminal(Last(evs))

\* A channel was closed after a chunk and a terminal event.
C9_Witness ==
    \E i \in 1..Len(produced) :
        /\ chans[i].closed
        /\ Len(produced[i]) >= 2
        /\ ~Terminal(produced[i][1])

\* C10: a stream on which the backend reported a transport error sends the
\* Error event as its only terminal event and no Done; its goroutine asks
\* the backend for nothing more and no other stream follows it in its
\* cycle; the function calls it had accumulated are not executed; and the
\* cycle ends in the error with no assistant message appended.
C10_ErrorEndsCycle ==
    \A i \in 1..Len(prods) :
        prods[i].failed =>
            /\ prods[i].pc \in {"send", "close", "done"}
            /\ \A j \in 1..Len(produced[i]) :
                  /\ ~produced[i][j].done
                  /\ Terminal(produced[i][j]) => j = Len(produced[i])
            /\ \A d \in 1..Len(dispatches) : dispatches[d].from # i
            /\ \A e \in 1..Len(execLog) : dispatches[execLog[e].disp].from # i
            /\ LET cy == cycleLog[CycleOf(i)] IN
               /\ Last(cy.streams) = i
               /\ cy.end # "" =>
                     /\ cy.end = "error"
                     /\ cy.endFrom = i
                     /\ cy.msgs1 = cy.msgs0
                     /\ cy.post = cy.pre

\* A stream failed after it had sent a chunk and accumulated function
\* calls, and its cycle has ended.
C10_Witness ==
    \E i \in 1..Len(prods) :
        /\ prods[i].failed
        /\ prods[i].functionCalls # <<>>
        /\ Len(produced[i]) >= 2
        /\ cycleLog[CycleOf(i)].end = "error"

\* The response parts of dispatch d that carry an "error" key.
ErrorResponses(d) ==
    {j \in 1..Len(dispatches[d].calls) :
        "error" \in DOMAIN ExpectedResponse(d, j).fr.response}

\* C11: a tool result with an "error" key does not end the cycle: it is
\* appended to the tool-result turn as the function response of its call
\* like any other result, the calls after it in the batch are executed,
\* each on the file system the call before left, and the next stream of
\* the same cycle is started on the history with that turn.
C11_ErrorResultContinues ==
    LET Batch(D, n, mine, turn, bad) ==
            bad # {} =>
                /\ Len(mine) = n
                /\ turn.role = "user" /\ Len(turn.parts) = n
                /\ \A j \in 1..n :
                      /\ mine[j].response = turn.parts[j]
                      /\ turn.parts[j].fr.name = D.calls[j].name
                /\ \A j \in bad :
                      /\ "error" \in DOMAIN turn.parts[j].fr.response
                      /\ \A k \in (j + 1)..n :
                            mine[k].call = D.calls[k]
                /\ CycleOf(D.stream) = CycleOf(D.from)
                /\ cycleLog[CycleOf(D.from)].endFrom # D.from
        At(d, D) ==
            /\ D.stream \in 1..Len(prods)
            /\ \A j \in 1..Len(D.calls) :
                  Last(prods[D.stream].conversation).parts[j] = ExpectedResponse(d, j)
            /\ Batch(D, Len(D.calls),
                     SelectSeq(execLog, LAMBDA e : e.disp = d),
                     Last(prods[D.stream].conversation),
                     ErrorResponses(d))
    IN  \A d \in 1..Len(dispatches) : At(d, dispatches[d])

\* A batch of two calls was dispatched in which the first call failed and
\* the second one was carried out, and the stream started after the batch
\* ended the cycle with an answer.
C11_Witness ==
    \E d \in 1..Len(dispatches) :
        /\ Len(dispatches[d].calls) = 2
        /\ ErrorResponses(d) = {1}
        /\ "success" \in DOMAIN ExpectedResponse(d, 2).fr.response
        /\ dispatches[d].fsBefore # fs
        /\ cycleLog[CycleOf(dispatches[d].from)].end = "done"
        /\ cycleLog[CycleOf(dispatches[d].from)].endFrom = dispatches[d].stream

\* The names of the calls executed for the cycle c, in execution order.
ExecutedNames(c) ==
    LET mine == SelectSeq(execLog, LAMBDA e : e.disp \in DispatchesOf(c))
    IN  [j \in 1..Len(mine) |-> mine[j].call.name]

\* C12: the tool-usage list of the finalized message of a cycle is the
\* names of all the tool calls executed during the cycle, in execution
\* order: empty when no tool ran, and the one name when the cycle had one
\* round with a single call.
C12_ToolsUsedAllCalls ==
    \A c \in 1..Len(cycleLog) :
        cycleLog[c].end = "done" =>
            messages[cycleLog[c].msgs1].toolsUsed = ExecutedNames(c)

\* The texts of the parts of a stream's partial responses that are thought
\* parts (thought = TRUE) or plain-text parts (thought = FALSE), in order.
RECURSIVE TextOfParts(_, _)
TextOfParts(parts, thought) ==
    IF parts = <<>> THEN <<>>
    ELSE (IF Head(parts).thought = thought THEN Head(parts).text ELSE <<>>)
         \o TextOfParts(Tail(parts), thought)

RECURSIVE TextOfResponses(_, _)
TextOfResponses(resps, thought) ==
    IF resps = <<>> THEN <<>>
    ELSE TextOfParts(Head(resps), thought) \o TextOfResponses(Tail(resps), thought)

\* The chunks of the events a stream has put on its channel, concatenated.
RECURSIVE ChunksOf(_)
ChunksOf(events) ==
    IF events = <<>> THEN <<>>
    ELSE Head(events).chunk \o ChunksOf(Tail(events))

TestFile == <<"/", "r", "/", "f">>

TestDir == <<"/", "r", "/", "d">>

FileContents ==
    {Bytes(<<>>, 0),
     Bytes(<<"x", "y", "x">>, 0),
     Bytes(<<"y", "y", "y">>, 0),
     Bytes(<<"x", "x", "y", "y">>, 0),
     Bytes(<<"x">>, maxFileSize - 1),
     Bytes(<<"x">>, maxFileSize),
     Bytes(<<NUL>>, 0),
     Bytes(<<NUL>>, maxFileSize),
     Bytes([i \in 1..BinaryProbe |-> IF i = BinaryProbe THEN NUL ELSE "b"], 0),
     Bytes([i \in 1..(BinaryProbe + 1) |-> IF i = BinaryProbe + 1 THEN NUL ELSE "b"], 0)}

ReadArgs == {("path" :> StrVal(<<"f">>)), ("path" :> StrVal(<<"d">>))}

OldStrings == {<<"y">>, <<"x">>, <<"y", "y">>, <<"x", "y">>, <<"z">>, <<>>}

NewStrings == {<<"a">>, <<"y">>, <<"y", "y">>, <<>>}

FileEditArgs ==
    {("path" :> StrVal(<<"f">>)) @@ ("old_string" :> StrVal(o)) @@ ("new_string" :> StrVal(n)) :
        o \in OldStrings, n \in NewStrings}

InitFiles ==
    /\ fs \in {[InitFs EXCEPT ![TestFile] = FileNode(c), ![TestDir] = DirNodeOfSize(n)] :
                  c \in FileContents, n \in {0, maxFileSize + 1}}
    /\ prevFs = fs
    /\ lastCall = NoCall
    /\ lastOut = NoOut
    /\ ops = 0
    /\ messages = <<>>
    /\ conversation = <<>>
    /\ waiting = FALSE
    /\ streaming = FALSE
    /\ streamBuffer = <<>>
    /\ streamToolsUsed = <<>>
    /\ activeTools = <<>>
    /\ streamChan = 0
    /\ err = ""
    /\ chans = <<>>
    /\ prods = <<>>
    /\ cmds = <<>>
    /\ crashed = FALSE
    /\ produced = <<>>
    /\ execLog = <<>>
    /\ dispatches = <<>>
    /\ cycleLog = <<>>
    /\ lastKey = ""
    /\ thinkingEnabled = FALSE
    /\ currentModel = ModelFlash20
    /\ keys = 0

\* What one Execute call leaves; after records the call before it and
\* its result.
Called(name, args, out) ==
    /\ fs' = out.fs
    /\ prevFs' = fs
    /\ lastCall' = [name |-> name, args |-> args]
    /\ lastOut' = [result |-> out.result, reads |-> out.reads,
                   writes |-> out.writes,
                   after |-> [call |-> lastCall, result |-> lastOut.result]]
    /\ ops' = ops + 1

ReadFileCall ==
    /\ ops < MaxOps
    /\ \E args \in ReadArgs :
          Called("read_file", args, Execute(fs, "read_file", args))
    /\ UNCHANGED agentVars

EditFileCall ==
    /\ ops < MaxOps
    /\ \E args \in FileEditArgs :
          Called("edit_file", args, Execute(fs, "edit_file", args))
    /\ UNCHANGED agentVars

NextFiles == ReadFileCall \/ EditFileCall

SpecFiles == InitFiles /\ [][NextFiles]_vars

(***************************************************************************)
(* Properties of the results of Execute, checked under SpecExec.           *)
(***************************************************************************)
\* A required argument of the last call is missing or is no string.
RequiredMissing ==
    \E k \in Required(lastCall.name) : ~HasStr(lastCall.args, k)

\* C14: for every tool name, the six tools and any other, and every
\* argument mapping, the empty one and those with values of the wrong
\* type included, Execute returns a result mapping that is not nil (every
\* return statement of the executor pairs it with a nil error); when a
\* required argument is missing or of the wrong type the result has an
\* "error" key and the file system is unchanged.
C14_AlwaysAResult ==
    ops > 0 =>
        /\ DOMAIN lastOut.result # {}
        /\ RequiredMissing =>
              /\ "error" \in DOMAIN lastOut.result
              /\ fs = prevFs

\* write_file was called on the existing file f with a number for its
\* content, and answered "content is required" without writing.
C14_Witness ==
    /\ lastCall.name = "write_file"
    /\ PathGiven /\ CallPath = <<"f">>
    /\ "content" \in DOMAIN lastCall.args /\ ~HasStr(lastCall.args, "content")
    /\ IsError(lastOut.result, "content is required")
    /\ fs = prevFs

\* What the last call asked for is in place: the content returned is the
\* file's, the listing or the matches are returned, the file holds the
\* content given or the content with old_string replaced, the directory
\* exists.
EffectInPlace ==
    LET r == lastOut.result
        Target(full) ==
            CASE lastCall.name = "read_file" ->
                    /\ "content" \in DOMAIN r
                    /\ r["content"] = ReadFile(prevFs, full).content
              [] lastCall.name = "write_file" ->
                    /\ "success" \in DOMAIN r /\ r["success"]
                    /\ ReadFile(fs, full).err = ""
                    /\ ReadFile(fs, full).content =
                           Bytes(lastCall.args["content"].v, lastCall.args["content"].pad)
              [] lastCall.name = "edit_file" ->
                    /\ "success" \in DOMAIN r /\ r["success"]
                    /\ ReadFile(prevFs, full).err = ""
                    /\ ReadFile(fs, full).content.s =
                           ReplaceFirst(ReadFile(prevFs, full).content.s,
                                        lastCall.args["old_string"].v,
                                        lastCall.args["new_string"].v)
              [] lastCall.name = "create_directory" ->
                    /\ "success" \in DOMAIN r /\ r["success"]
                    /\ Stat(fs, full).err = "" /\ Stat(fs, full).isDir
              [] OTHER -> FALSE
    IN  CASE lastCall.name = "list_directory" -> "items" \in DOMAIN r
          [] lastCall.name = "glob_search" -> "matches" \in DOMAIN r
          [] OTHER -> PathGiven /\ Target(resolvePath(CallPath))

\* C15: a result of Execute has the "error" key exactly when the operation
\* asked for was not carried out: with the key nothing is returned or
\* changed (no content, listing or matches, no success, the file system as
\* before) and the value is a message string; without it the effect of
\* the operation is in place. No result has "error" together with
\* success = true or with content.
C15_ErrorIffNotDone ==
    LET Failed(r) ==
            /\ r["error"].msg \in STRING
            /\ r["error"].msg # ""
            /\ DOMAIN r \cap {"success", "content", "items", "matches"} = {}
            /\ fs = prevFs
            /\ lastOut.writes = {}
            /\ ~EffectInPlace
    IN  ops > 0 =>
            IF "error" \in DOMAIN lastOut.result
            THEN Failed(lastOut.result)
            ELSE EffectInPlace

\* edit_file on f, in which the old_string x occurs twice, was answered
\* with the error and the occurrence count and wrote nothing.
C15_Witness ==
    /\ lastCall.name = "edit_file"
    /\ PathGiven /\ CallPath = <<"f">>
    /\ IsError(lastOut.result, "old_string found %d times in file, must be unique")
    /\ DOMAIN lastOut.result = {"error", "path", "occurrences"}
    /\ fs = prevFs

(***************************************************************************)
(* Properties of read_file and edit_file, checked under SpecFiles.         *)
(***************************************************************************)
\* The places of content at which sub occurs: for the empty string every
\* place before, between and after the bytes.
Occurrences(content, sub) ==
    IF sub = <<>> THEN BLen(content) + 1
    ELSE Cardinality({i \in 1..(Len(content.s) - Len(sub) + 1) :
                         SubSeq(content.s, i, i + Len(sub) - 1) = sub})

\* content with the occurrence of old at place i replaced by new.
ReplacedAt(content, old, new, i) ==
    Bytes(SubSeq(content.s, 1, i - 1) \o new
              \o SubSeq(content.s, i + Len(old), Len(content.s)),
          content.pad)

MustBeUnique == "old_string found %d times in file, must be unique"

\* C16: edit_file on an existing file under the root succeeds exactly when
\* old_string occurs in the content of the file exactly once; the file
\* then holds the content with that occurrence replaced by new_string and
\* the result reports the size of the new content, and nothing else
\* changes. With no occurrence the result is the error "old_string not
\* found in file", with k > 1 occurrences the "must be unique" error that
\* reports k.
C16_EditExactlyOnce ==
    LET Edited(r, prev, old, new, k) ==
            /\ ("success" \in DOMAIN r) <=> (k = 1)
            /\ k = 1 =>
                  \E i \in 1..(Len(prev.s) + 1) :
                      /\ SubSeq(prev.s, i, i + Len(old) - 1) = old
                      /\ fs = [prevFs EXCEPT ![TestFile] =
                                   FileNode(ReplacedAt(prev, old, new, i))]
                      /\ r["size"] = BLen(ReplacedAt(prev, old, new, i))
            /\ k = 0 => IsError(r, "old_string not found in file") /\ fs = prevFs
            /\ k > 1 =>
                  /\ IsError(r, MustBeUnique)
                  /\ r["error"].n = k /\ r["occurrences"] = k
                  /\ fs = prevFs
        Of(prev, old, new) ==
            Edited(lastOut.result, prev, old, new, Occurrences(prev, old))
    IN  lastCall.name = "edit_file" =>
            Of(prevFs[TestFile].content, lastCall.args["old_string"].v,
               lastCall.args["new_string"].v)

RepeatedEdit ==
    /\ ops >= 2
    /\ lastCall.name = "edit_file"
    /\ lastOut.after.call = lastCall
    /\ "success" \in DOMAIN lastOut.after.result

NotFound == IsError(lastOut.result, "old_string not found in file")

NulAtStart(content) ==
    \E i \in 1..Len(content.s) : i <= 512 /\ content.s[i] = NUL

TooLarge == "file too large: %d bytes (max %d bytes)"

\* C19: read_file on a regular file under the root returns content only
\* for a file of at most 102400 bytes, and a text file of exactly 102400
\* bytes is returned whole; for a larger file the result is the error
\* that carries the size and the limit, with no content; for a directory
\* it is the error that names list_directory, whatever size stat reports
\* for the directory.
C19_ReadLimit ==
    LET File(r, content) ==
            /\ "content" \in DOMAIN r => BLen(content) <= 102400
            /\ (BLen(content) <= 102400 /\ ~NulAtStart(content)) =>
                  /\ DOMAIN r = {"path", "content", "size"}
                  /\ r["content"] = content
                  /\ r["size"] = BLen(content)
            /\ BLen(content) > 102400 =>
                  /\ IsError(r, TooLarge)
                  /\ r["error"].n = BLen(content)
                  /\ r["error"].max = 102400
                  /\ r["size"] = BLen(content)
                  /\ "content" \notin DOMAIN r
        Directory(r) ==
            /\ IsError(r, "path is a directory, use list_directory instead")
            /\ "content" \notin DOMAIN r
    IN  lastCall.name = "read_file" =>
            /\ fs = prevFs
            /\ CallPath = <<"f">> => File(lastOut.result, prevFs[TestFile].content)
            /\ CallPath = <<"d">> => Directory(lastOut.result)

\* A file of exactly 102400 bytes was read and returned whole.
C19_Witness ==
    /\ lastCall.name = "read_file" /\ CallPath = <<"f">>
    /\ BLen(prevFs[TestFile].content) = 102400
    /\ "content" \in DOMAIN lastOut.result
    /\ lastOut.result["size"] = 102400

Binary == "file appears to be binary"

\* C20 as stated: read_file on a file returns the error "file appears to
\* be binary", with no content, exactly when one of the first 512 bytes of
\* the file, or of the whole file when it is shorter, is NUL.
C20_BinaryIffNul ==
    (lastCall.name = "read_file" /\ CallPath = <<"f">>) =>
        /\ IsError(lastOut.result, Binary) <=> NulAtStart(prevFs[TestFile].content)
        /\ IsError(lastOut.result, Binary) => "content" \notin DOMAIN lastOut.result

\* C20 amended: the same for a file of at most 102400 bytes; a larger file
\* is answered with the "file too large" error whatever its bytes are. A
\* NUL byte at offset 512 or later only, and an empty file, give the
\* content.
C20_BinaryIffNulWithinLimit ==
    LET Read(r, content) ==
            /\ BLen(content) <= 102400 =>
                  /\ IsError(r, Binary) <=> NulAtStart(content)
                  /\ ~NulAtStart(content) => r["content"] = content
            /\ BLen(content) > 102400 => IsError(r, TooLarge)
            /\ "error" \in DOMAIN r => "content" \notin DOMAIN r
            /\ IsError(r, Binary) => DOMAIN r = {"error", "path", "size"}
    IN  (lastCall.name = "read_file" /\ CallPath = <<"f">>) =>
            Read(lastOut.result, prevFs[TestFile].content)

\* A file of 512 bytes whose last byte is the only NUL was refused as
\* binary.
C20_Witness ==
    /\ lastCall.name = "read_file" /\ CallPath = <<"f">>
    /\ Len(prevFs[TestFile].content.s) = 512
    /\ prevFs[TestFile].content.s[512] = NUL
    /\ \A i \in 1..511 : prevFs[TestFile].content.s[i] # NUL
    /\ IsError(lastOut.result, Binary)

(***************************************************************************)
(* SpecDirs: write_file, create_directory, list_directory and glob_search  *)
(* called MaxOps times on a root that also holds the directory h with      *)
(* maxResults files or one more, so that a search can find more matches    *)
(* than it may return.                                                     *)
(***************************************************************************)
ManyDir == <<"/", "r", "/", "h">>

NameChars == <<"a", "b", "d", "f", "h", "l", "r", "s", "x", "y">>

\* maxResults + 1 file names in name order: a, aa, ab, ..., yy.
ManyNames ==
    [i \in 1..(Len(NameChars) * Len(NameChars) + 1) |->
        IF i = 1 THEN <<"a">>
        ELSE <<NameChars[((i - 2) \div Len(NameChars)) + 1],
               NameChars[((i - 2) % Len(NameChars)) + 1]>>]

\* The root with the directory h and the first n of the files in it.
ManyFs(n) ==
    [q \in {Child(ManyDir, ManyNames[i]) : i \in 1..n} |-> FileNode(Bytes(<<"s">>, 0))]
    @@ (ManyDir :> DirNode)
    @@ InitFs

\* The agent's variables before anything has happened.
InitAgent ==
    /\ messages = <<>>
    /\ conversation = <<>>
    /\ waiting = FALSE
    /\ streaming = FALSE
    /\ streamBuffer = <<>>
    /\ streamToolsUsed = <<>>
    /\ activeTools = <<>>
    /\ streamChan = 0
    /\ err = ""
    /\ chans = <<>>
    /\ prods = <<>>
    /\ cmds = <<>>
    /\ crashed = FALSE
    /\ produced = <<>>
    /\ execLog = <<>>
    /\ dispatches = <<>>
    /\ cycleLog = <<>>
    /\ lastKey = ""
    /\ thinkingEnabled = FALSE
    /\ currentModel = ModelFlash20
    /\ keys = 0

InitDirs ==
    /\ fs \in {ManyFs(n) : n \in {maxResults, maxResults + 1}}
    /\ prevFs = fs
    /\ lastCall = NoCall
    /\ lastOut = NoOut
    /\ ops = 0
    /\ InitAgent

\* Contents of one byte, of exactly ten times the read limit and of one
\* byte more; paths of an existing file, of a file below two missing
\* directories and of a directory.
DirWriteArgs ==
    {("path" :> StrVal(q)) @@ ("content" :> c) :
        q \in {<<"f">>, <<"b", "/", "b", "/", "a">>, <<"d">>},
        c \in {StrVal(<<"y">>), BigStrVal(<<"x">>, maxFileSize * 10 - 1),
               BigStrVal(<<"x">>, maxFileSize * 10)}}

WriteFileCall ==
    /\ ops < MaxOps
    /\ \E args \in DirWriteArgs :
          Called("write_file", args, Execute(fs, "write_file", args))
    /\ UNCHANGED agentVars

\* Patterns for the files of h, for the entries of the root and for every
\* file named f at any depth.
DirGlobArgs ==
    {("pattern" :> StrVal(q)) :
        q \in {<<"h", "/", "*">>, <<"*">>, <<"*", "*", "/", "f">>}}

GlobSearchCall ==
    /\ ops < MaxOps
    /\ \E args \in DirGlobArgs :
          Called("glob_search", args, Execute(fs, "glob_search", args))
    /\ UNCHANGED agentVars

\* Paths of an existing directory, of the root, of a directory below
\* a missing one, of the directory of many files and of a regular file.
DirCreateArgs ==
    {("path" :> StrVal(q)) :
        q \in {<<"d">>, <<".">>, <<"b", "/", "b">>, <<"h">>, <<"f">>}}

CreateDirectoryCall ==
    /\ ops < MaxOps
    /\ \E args \in DirCreateArgs :
          Called("create_directory", args, Execute(fs, "create_directory", args))
    /\ UNCHANGED agentVars

\* No path, an empty one, one that is no string, the root, a directory
\* without entries, the directory of many files, a regular file and a
\* directory that is there only once it is made.
DirListArgs ==
    {<<>>, ("path" :> StrVal(<<>>)), ("path" :> NumVal)}
    \cup {("path" :> StrVal(q)) :
            q \in {<<".">>, <<"d">>, <<"h">>, <<"f">>, <<"b">>}}

ListDirectoryCall ==
    /\ ops < MaxOps
    /\ \E args \in DirListArgs :
          Called("list_directory", args, Execute(fs, "list_directory", args))
    /\ UNCHANGED agentVars

NextDirs ==
    WriteFileCall \/ GlobSearchCall \/ CreateDirectoryCall \/ ListDirectoryCall

SpecDirs == InitDirs /\ [][NextDirs]_vars

(***************************************************************************)
(* Properties of write_file, create_directory, list_directory and          *)
(* glob_search, checked under SpecDirs.                                    *)
(***************************************************************************)
\* The directories above the object q, the file system root excluded.
Ancestors(q) ==
    {<<"/">> \o JoinSegs(SubSeq(Elems(q), 1, k)) : k \in 1..(Len(Elems(q)) - 1)}

\* g is f with the object q replaced or added and the directories in made
\* added, and nothing else changed.
OnlyAdded(f, g, q, node, made) ==
    /\ DOMAIN g = DOMAIN f \cup made \cup {q}
    /\ g[q] = node
    /\ \A a \in made : a \notin DOMAIN f /\ g[a] = DirNode
    /\ \A o \in DOMAIN f \ {q} : g[o] = f[o]

\* C21: write_file takes content of at most 1,024,000 bytes and refuses
\* longer content with an error, and then nothing on disk has changed, so
\* no parent directory was created; when it succeeds, every missing
\* parent directory exists, the file holds the content given, whatever it
\* held before, nothing else has changed, and the size reported is the
\* length of the content.
C21_WriteLimit ==
    LET Write(r, q, content) ==
            /\ BLen(content) > 1024000 =>
                  /\ IsError(r, "content too large: %d bytes (max %d bytes)")
                  /\ r["error"].n = BLen(content)
                  /\ r["error"].max = 1024000
                  /\ fs = prevFs
            /\ BLen(content) <= 1024000 =>
                  IF q = TestDir
                  THEN "error" \in DOMAIN r /\ fs = prevFs
                  ELSE /\ DOMAIN r = {"path", "size", "success"}
                       /\ r["success"] /\ r["path"] = q
                       /\ r["size"] = BLen(content)
                       /\ OnlyAdded(prevFs, fs, q, FileNode(content),
                                    Ancestors(q) \ DOMAIN prevFs)
        Of(path, c) ==
            Write(lastOut.result, LexAbs(path), Bytes(c.v, c.pad))
    IN  lastCall.name = "write_file" =>
            Of(lastCall.args["path"].v, lastCall.args["content"])

\* Content of exactly 1,024,000 bytes was written to b/b/a, for which
\* the directories b and b/b were made.
C21_Witness ==
    /\ lastCall.name = "write_file"
    /\ lastCall.args["path"].v = <<"b", "/", "b", "/", "a">>
    /\ "success" \in DOMAIN lastOut.result
    /\ lastOut.result["size"] = 1024000
    /\ <<"/", "r", "/", "b">> \notin DOMAIN prevFs
    /\ fs[<<"/", "r", "/", "b", "/", "b">>] = DirNode
    /\ BLen(fs[<<"/", "r", "/", "b", "/", "b", "/", "a">>].content) = 1024000

\* The files of h in name order, as the pattern h/* finds them.
FilesOfMany(f) ==
    LET there == SelectSeq(ManyNames, LAMBDA n : Child(ManyDir, n) \in DOMAIN f)
    IN  [i \in 1..Len(there) |-> <<"h", "/">> \o there[i]]

\* C22: glob_search returns at most 100 matches: of more than 100 matches
\* it returns the first 100 and truncated = true, of at most 100 all of
\* them and truncated = false, and count is the number of matches
\* returned; for the pattern h/* the matches are the files of h in name
\* order.
C22_GlobLimit ==
    LET Cut(r, all) ==
            /\ DOMAIN r = {"pattern", "matches", "count", "truncated"}
            /\ Len(r["matches"]) <= 100
            /\ r["count"] = Len(r["matches"])
            /\ Len(all) > 100 =>
                  r["matches"] = SubSeq(all, 1, 100) /\ r["truncated"]
            /\ Len(all) <= 100 =>
                  r["matches"] = all /\ ~r["truncated"]
            /\ fs = prevFs
        Of(pattern) ==
            /\ Cut(lastOut.result, Glob(prevFs, pattern).matches)
            /\ pattern = <<"h", "/", "*">> =>
                  Cut(lastOut.result, FilesOfMany(prevFs))
    IN  lastCall.name = "glob_search" => Of(lastCall.args["pattern"].v)

\* The search for h/* in a directory h of 101 files returned the first
\* 100 of them, the last one being h/yx, and truncated = true.
C22_Witness ==
    /\ lastCall.name = "glob_search"
    /\ lastCall.args["pattern"].v = <<"h", "/", "*">>
    /\ Len(FilesOfMany(prevFs)) = 101
    /\ lastOut.result["count"] = 100
    /\ lastOut.result["truncated"]
    /\ lastOut.result["matches"][100] = <<"h", "/", "y", "x">>

\* The last call is identical to the call before it, which succeeded.
RepeatedCall ==
    /\ ops >= 2
    /\ lastOut.after.call = lastCall
    /\ "success" \in DOMAIN lastOut.after.result

\* C23: create_directory on a path under the root on which no regular
\* file stands creates the directory and all its missing parents and
\* nothing else; called again with the same path it succeeds again and
\* leaves the file system as the first call left it, and on a directory
\* that exists, the root included, it succeeds and changes nothing. With
\* a regular file in the way it is an error that changes nothing.
C23_CreateIdempotent ==
    LET Made(r, q, missing) ==
            /\ DOMAIN r = {"path", "success"}
            /\ r["success"] /\ r["path"] = q
            /\ DOMAIN fs = DOMAIN prevFs \cup missing
            /\ \A a \in missing : fs[a] = DirNode
            /\ \A o \in DOMAIN prevFs : fs[o] = prevFs[o]
            /\ fs[q].kind = "dir"
            /\ missing = {} => fs = prevFs
        Create(r, q, way) ==
            /\ IF \E a \in way : a \in DOMAIN prevFs /\ prevFs[a].kind # "dir"
               THEN "error" \in DOMAIN r /\ fs = prevFs
               ELSE Made(r, q, way \ DOMAIN prevFs)
            /\ RepeatedCall => "success" \in DOMAIN r /\ fs = prevFs
        Of(q) == Create(lastOut.result, q, Ancestors(q) \cup {q})
    IN  lastCall.name = "create_directory" => Of(LexAbs(lastCall.args["path"].v))

\* create_directory b/b, which had made b and b/b, was called again and
\* succeeded without a change.
C23_Witness ==
    /\ lastCall.name = "create_directory"
    /\ lastCall.args["path"].v = <<"b", "/", "b">>
    /\ RepeatedCall
    /\ lastOut.after.result["path"] = <<"/", "r", "/", "b", "/", "b">>
    /\ "success" \in DOMAIN lastOut.result
    /\ fs = prevFs
    /\ fs[<<"/", "r", "/", "b", "/", "b">>] = DirNode

\* The entries of the directory q: the objects directly below it.
Entries(f, q) == {p \in DOMAIN f : p # <<"/">> /\ p # q /\ Dir(p) = q}

\* An item as list_directory shows the entry p: its name, with "/" after
\* the name of a directory.
ItemOf(f, p) ==
    LET Shown(name) == IF f[p].kind = "dir" THEN name \o <<"/">> ELSE name
    IN  Shown(Elems(p)[Len(Elems(p))])

\* The name an item shows.
NameOf(item) ==
    IF item[Len(item)] = "/" THEN SubSeq(item, 1, Len(item) - 1) ELSE item

\* C24: list_directory without a path, with an empty one or with one that
\* is no string lists the root. For a directory under the root that exists
\* it returns one item for each entry, in the order of the names, a
\* directory's name followed by "/" and a file's name as it is, count is
\* the number of items and nothing on disk changes. For the path of a
\* regular file it returns the error "path is not a directory".
C24_ListDirectory ==
    LET Listing(r, q) ==
            /\ DOMAIN r = {"path", "items", "count"}
            /\ r["path"] = q
            /\ r["count"] = Len(r["items"])
            /\ Len(r["items"]) = Cardinality(Entries(prevFs, q))
            /\ \A p \in Entries(prevFs, q) :
                  \E i \in 1..Len(r["items"]) : r["items"][i] = ItemOf(prevFs, p)
            /\ \A i \in 1..(Len(r["items"]) - 1) :
                  StrLess(NameOf(r["items"][i]), NameOf(r["items"][i + 1]))
        List(r, q) ==
            /\ fs = prevFs
            /\ ~PathGiven => q = workingDir
            /\ q \in DOMAIN prevFs /\ prevFs[q].kind = "dir" => Listing(r, q)
            /\ q \in DOMAIN prevFs /\ prevFs[q].kind = "file"
                  => IsError(r, "path is not a directory")
    IN  lastCall.name = "list_directory" => List(lastOut.result, LexAbs(CallPath))

\* The root was listed for a call that gave no string as its path, and it
\* holds files, directories and links.
C24_Witness ==
    /\ lastCall.name = "list_directory"
    /\ "path" \in DOMAIN lastCall.args /\ lastCall.args["path"].t = "number"
    /\ "items" \in DOMAIN lastOut.result
    /\ lastOut.result["path"] = workingDir
    /\ lastOut.result["count"] >= 4
    /\ \E i, j \in 1..lastOut.result["count"] :
          /\ lastOut.result["items"][i] = <<"d", "/">>
          /\ lastOut.result["items"][j] = <<"f">>

(***************************************************************************)
(* SpecStream: the program with a backend whose partial responses carry    *)
(* more text parts than the event channel holds, so that streamInBackground*)
(* finds the channel full, and whose responses with function calls have    *)
(* thought text and text before, between and after the calls.              *)
(***************************************************************************)
BurstTexts == <<"a", "b", "c", "d", "e", "f", "g", "h", "i", "j", "k">>

\* A thought, then one text part more than the channel has room for.
BurstResponses ==
    {<<ThoughtPart(<<"t">>)>> \o [n \in 1..Len(BurstTexts) |-> TextPart(<<BurstTexts[n]>>)]}

BurstCallResponses ==
    {<<ThoughtPart(<<"t">>), TextPart(<<"p">>), CallPart(CallRead, "s2"),
       TextPart(<<"q">>), CallPart(CallWrite, "s1")>>,
     <<ThoughtPart(<<"t">>), CallPart(CallWrite, "s1")>>}

\* The next (resp, err) of GenerateContentStream with these responses.
ProdRecvBurst(i) ==
    LET p == prods[i] IN
    /\ ~crashed
    /\ p.pc = "recv"
    /\ \/ prods' = [prods EXCEPT ![i] =
                       [p EXCEPT !.pc = "send", !.failed = TRUE,
                                 !.ev = Event(<<>>, <<>>, FALSE, "transport error", <<>>, <<>>)]]
       \/ /\ p.nresp < MaxResps
          /\ \E resp \in BurstResponses \cup
                         (IF Len(prods) < MaxStreams THEN BurstCallResponses ELSE {}) :
                prods' = [prods EXCEPT ![i] =
                             RunParts([p EXCEPT !.functionCalls = @ \o FunctionCalls(resp),
                                                !.todo = resp,
                                                !.nresp = @ + 1,
                                                !.resps = Append(@, resp)])]
       \/ prods' = [prods EXCEPT ![i] = [p EXCEPT !.pc = "send", !.ev = FinalEvent(p)]]
    /\ UNCHANGED <<execVars, keyVars, modelVars, chans, cmds, crashed, histVars>>

ReceiveBurst == \E i \in 1..Len(prods) : ProdRecvBurst(i)

NextStream ==
    \/ KeyEnter
    \/ ReceiveBurst
    \/ PushChunk
    \/ PushTerminal
    \/ CloseChannel
    \/ WaitForStreamEvent
    \/ StreamChunkMsg
    \/ StreamDoneMsg
    \/ StreamErrorMsg
    \/ StreamFunctionCallMsg

SpecStream == Init /\ [][NextStream]_vars

\* The parts of the partial responses, in the order received.
RECURSIVE PartsOf(_)
PartsOf(resps) ==
    IF resps = <<>> THEN <<>> ELSE Head(resps) \o PartsOf(Tail(resps))

\* The parts the part loop of the stream has dealt with.
Processed(p) ==
    SubSeq(PartsOf(p.resps), 1, Len(PartsOf(p.resps)) - Len(p.todo))

\* The plain-text parts with text among parts.
PlainParts(parts) ==
    SelectSeq(parts, LAMBDA part : ~part.thought /\ part.text # <<>>)

\* The Chunk events among events.
ChunkEvents(events) ==
    SelectSeq(events, LAMBDA ev : ~ev.done /\ ev.err = "")

\* C25: the Chunk events a stream has emitted are, one for one and in
\* the order of arrival, the plain-text parts with text it has received,
\* each carrying that part's text and nothing else; the answer text it
\* has accumulated is these texts concatenated; so no thought part and no
\* function-call part is emitted as a Chunk or enters the answer text.
C25_ChunkPerTextPart ==
    LET Emitted(p, plain, chunks) ==
            /\ Len(chunks) = Len(plain)
            /\ \A n \in 1..Len(chunks) :
                  chunks[n] = Event(plain[n].text, <<>>, FALSE, "", <<>>, <<>>)
            /\ p.fullText = ChunksOf(chunks)
            /\ p.fullText = TextOfParts(plain, FALSE)
    IN  \A i \in 1..Len(prods) :
            Emitted(prods[i], PlainParts(Processed(prods[i])),
                    ChunkEvents(produced[i]))

\* A stream received thought text, text, a function call, text and a
\* function call and emitted the two texts; another emitted every text of
\* a burst.
C25_Witness ==
    /\ \E i \in 1..Len(prods) :
          /\ prods[i].thinkingText = <<"t">>
          /\ Len(prods[i].functionCallParts) = 2
          /\ prods[i].fullText = <<"p", "q">>
          /\ Len(ChunkEvents(produced[i])) = 2
    /\ \E i \in 1..Len(prods) :
          /\ prods[i].thinkingText = <<"t">>
          /\ Len(ChunkEvents(produced[i])) = Len(BurstTexts)

\* The parts that carry a function call among parts.
CallParts(parts) == SelectSeq(parts, LAMBDA part : part.fc # NoFC)

\* The model turn streamInBackground builds for answer text and the
\* function-call parts received.
TurnOf(text, callParts) ==
    Content("model", (IF text = <<>> THEN <<>> ELSE <<TextPart(text)>>) \o callParts)

\* The stream has sent its Done event and had received a function call.
DoneWithCalls(i) ==
    /\ produced[i] # <<>>
    /\ Last(produced[i]).done
    /\ CallParts(PartsOf(prods[i].resps)) # <<>>

\* C26: the Done event of a stream that received a function call carries
\* the calls in the order received and a history that is the history the
\* stream was started with followed by one model turn: the answer text of
\* the stream as one text part, if there is any, then the function-call
\* parts in the order received. The thought text is in neither.
C26_DoneWithCalls ==
    LET Carried(ev, p, callParts, text) ==
            /\ ev.functionCalls = [n \in 1..Len(callParts) |-> callParts[n].fc]
            /\ ev.conversation = Append(p.conversation, TurnOf(text, callParts))
            /\ ev.thinking = <<>> /\ ev.chunk = <<>> /\ ev.err = ""
            /\ \A n \in 1..Len(Last(ev.conversation).parts) :
                  ~Last(ev.conversation).parts[n].thought
        Of(i) == Carried(Last(produced[i]), prods[i],
                         CallParts(PartsOf(prods[i].resps)),
                         TextOfResponses(prods[i].resps, FALSE))
    IN  \A i \in 1..Len(prods) : DoneWithCalls(i) => Of(i)

\* One stream ended with a turn of the text "pq" and two function-call
\* parts after thought text, another with a turn of one function-call
\* part and no text part.
C26_Witness ==
    /\ \E i \in 1..Len(prods) :
          /\ DoneWithCalls(i)
          /\ prods[i].thinkingText # <<>>
          /\ Last(Last(produced[i]).conversation).parts =
                <<TextPart(<<"p", "q">>), CallPart(CallRead, "s2"),
                  CallPart(CallWrite, "s1")>>
    /\ \E i \in 1..Len(prods) :
          /\ DoneWithCalls(i)
          /\ Last(Last(produced[i]).conversation).parts = <<CallPart(CallWrite, "s1")>>

\* The history sent with the request of stream k holds, right after the
\* history sent with the request of the earlier stream j, a model turn
\* whose function-call parts are the parts stream j received.
EchoedIn(j, k) ==
    LET At(n, conv) ==
            /\ Len(conv) >= n
            /\ SubSeq(conv, 1, n - 1) = prods[j].conversation
            /\ conv[n].role = "model"
            /\ CallParts(conv[n].parts) = CallParts(PartsOf(prods[j].resps))
    IN  At(Len(prods[j].conversation) + 1, prods[k].conversation)

\* C27: the function-call parts of the model turn made from a stream are
\* the parts that stream received, with the same name, arguments and
\* continuation token, in the Done event and in the history sent with
\* every later request of the cycle.
C27_CallPartsEchoed ==
    LET InEvent(i) ==
            CallParts(Last(Last(produced[i]).conversation).parts)
                = CallParts(PartsOf(prods[i].resps))
        InCycle(streams) ==
            \A a, b \in 1..Len(streams) : a < b => EchoedIn(streams[a], streams[b])
    IN  /\ \A i \in 1..Len(prods) : DoneWithCalls(i) => InEvent(i)
        /\ \A c \in 1..Len(cycleLog) : InCycle(cycleLog[c].streams)

\* A cycle made three requests; the first stream had received two
\* function-call parts with their tokens and the second one.
C27_Witness ==
    \E c \in 1..Len(cycleLog) :
        /\ Len(cycleLog[c].streams) = 3
        /\ CallParts(PartsOf(prods[cycleLog[c].streams[1]].resps)) =
              <<CallPart(CallRead, "s2"), CallPart(CallWrite, "s1")>>
        /\ CallParts(PartsOf(prods[cycleLog[c].streams[2]].resps)) =
              <<CallPart(CallWrite, "s1")>>
        /\ EchoedIn(cycleLog[c].streams[1], cycleLog[c].streams[3])

\* C28: of any two consecutive requests to the backend, within a cycle
\* and from one cycle to the next, the history sent with the earlier one
\* is a prefix of the history sent with the later one.
C28_ConsistentPrefix ==
    \A i \in 1..(Len(prods) - 1) :
        IsPrefix(prods[i].conversation, prods[i + 1].conversation)

\* The goroutine of stream i is at a send and its channel is full.
BlockedOnPush(i) ==
    /\ prods[i].pc \in {"chunk", "send"}
    /\ Len(chans[i].buf) = ChanCap

\* C29: the channel of a stream never holds more than ChanCap events,
\* which are the events of the stream pushed and not yet received; while
\* it holds that many, the goroutine at a send stays where it is and
\* pushes nothing, until the foreground has received an event.
C29_QueueBounded ==
    /\ [](\A i \in 1..Len(prods) :
            /\ Len(chans[i].buf) <= ChanCap
            /\ Len(chans[i].buf) <= Len(produced[i])
            /\ chans[i].buf =
                  SubSeq(produced[i], Len(produced[i]) - Len(chans[i].buf) + 1,
                         Len(produced[i])))
    /\ [][\A i \in 1..Len(prods) :
            BlockedOnPush(i) =>
                /\ prods'[i] = prods[i]
                /\ produced'[i] = produced[i]
                /\ chans'[i].buf \in {chans[i].buf, Tail(chans[i].buf)}]_vars

\* A stream pushed ChanCap chunks before the foreground received any and
\* stands at the push of the next one.
C29_Witness ==
    \E i \in 1..Len(prods) :
        /\ BlockedOnPush(i)
        /\ prods[i].pc = "chunk"
        /\ Len(produced[i]) = ChanCap

\* What the foreground holds of the event ev: a message of the kind of
\* the event with the event's chunk, error, calls and history.
Delivers(msg, ev) ==
    /\ msg.type = (IF ev.err # "" THEN "streamErrorMsg"
                   ELSE IF ~ev.done THEN "streamChunkMsg"
                   ELSE IF Len(ev.functionCalls) > 0 THEN "streamFunctionCallMsg"
                   ELSE "streamDoneMsg")
    /\ msg.chunk = ev.chunk
    /\ msg.err = ev.err
    /\ msg.thinking = ev.thinking
    /\ msg.calls = ev.functionCalls
    /\ msg.conversation = ev.conversation

\* C30: the events pushed by a stream are, in the order pushed, those the
\* foreground has handled, the one it has received and not yet handled,
\* and those still in the channel of that stream; the handled ones are
\* Chunks and the live buffer is their texts concatenated; a terminal
\* event is the last event of its stream. So the events are received in
\* the order pushed, one for each wait, none lost, none twice and none
\* from the channel of another stream.
C30_DeliveredInOrder ==
    LET InThree(c, events, buf, held, n) ==
            /\ n >= 0
            /\ buf = SubSeq(events, n + held + 1, Len(events))
            /\ held = 1 => Delivers(c.msg, events[n + 1]) /\ c.msg.from = c.ch
            /\ \A j \in 1..n : ~Terminal(events[j])
            /\ streamBuffer = ChunksOf(SubSeq(events, 1, n))
            /\ held = 0 => c.buffer = streamBuffer
        Held(c, events, buf, held) ==
            InThree(c, events, buf, held, Len(events) - Len(buf) - held)
        Of(c) == Held(c, produced[c.ch], chans[c.ch].buf,
                      IF c.st = "msg" THEN 1 ELSE 0)
    IN  /\ \A k \in 1..Len(cmds) : cmds[k].ch # 0 => Of(cmds[k])
        /\ \A i \in 1..Len(prods) :
              \A j \in 1..(Len(produced[i]) - 1) : ~Terminal(produced[i][j])

\* Three Chunks of a burst are in the live buffer, the fourth is received
\* and not yet handled, and the rest of the burst and its Done event are
\* in the channel or still to be pushed.
C30_Witness ==
    \E k \in 1..Len(cmds) :
        /\ cmds[k].ch # 0
        /\ cmds[k].st = "msg"
        /\ cmds[k].msg.chunk = <<"d">>
        /\ streamBuffer = <<"a", "b", "c">>
        /\ Len(chans[cmds[k].ch].buf) >= 2
        /\ Len(prods) >= 2

\* The step handles the message of command k: the command is gone from
\* the commands in flight.
Handled(k, type) ==
    /\ cmds[k].st = "msg"
    /\ cmds[k].msg.type = type
    /\ \/ cmds' = Remove(cmds, k)
       \/ /\ Len(cmds') = Len(cmds)
          /\ SubSeq(cmds', 1, Len(cmds) - 1) = Remove(cmds, k)

\* C31: the in-flight flags are cleared, so that Enter is accepted again,
\* only by the step that handles an Error event or a Done event without
\* function calls, and that step starts no stream; the step that handles
\* a Done event with function calls leaves a cycle in flight and starts
\* another stream, whatever the number of rounds the cycle has had.
C31_CycleEndsOnlyOnDoneOrError ==
    [][/\ cycleInFlight /\ ~cycleInFlight' =>
            /\ \E k \in 1..Len(cmds) :
                   /\ \/ Handled(k, "streamDoneMsg")
                      \/ Handled(k, "streamErrorMsg")
                   /\ cmds[k].msg.calls = <<>>
                   /\ cmds' = Remove(cmds, k)
            /\ prods' = prods /\ chans' = chans
       /\ \A k \in 1..Len(cmds) :
            Handled(k, "streamFunctionCallMsg") /\ dispatches' # dispatches =>
                /\ Len(cmds[k].msg.calls) > 0
                /\ cycleInFlight /\ waiting' /\ streaming'
                /\ Len(prods') = Len(prods) + 1
                /\ Len(chans') = Len(chans) + 1
                /\ streamChan' = Len(chans')
                /\ cmds'[Len(cmds')].st = "wait"
                /\ cmds'[Len(cmds')].ch = streamChan'
                /\ Len(cycleLog') = Len(cycleLog)]_vars

\* A cycle is in its third round, after two Done events with function
\* calls were handled.
C31_Witness ==
    /\ Len(cycleLog) = 1
    /\ Len(cycleLog[1].streams) = 3
    /\ Len(dispatches) = 2
    /\ cycleInFlight
    /\ cycleLog[1].end = ""

(***************************************************************************)
(* SpecLive: the program with the goroutines and the Bubble Tea runtime    *)
(* scheduled fairly: as long as a goroutine can take its next step, a      *)
(* command can return or a returned message waits to be handled, one of    *)
(* these steps is taken.  The Enter key is the user's and is under no such *)
(* condition.  Every stream is finite (MaxResps) and a round with function *)
(* calls is followed by at most MaxStreams - 1 others.  The calls the      *)
(* backend asks for are a read_file without a path and a tool that does    *)
(* not exist, which Execute answers with an error result.                  *)
(***************************************************************************)
CallNoPath == [name |-> "read_file", args |-> <<>>]

CallUnknown == [name |-> "delete_file", args |-> ("path" :> StrVal(<<"a">>))]

LiveCallResponses ==
    {<<CallPart(CallNoPath, "s1")>>,
     <<TextPart(<<"i">>), CallPart(CallUnknown, "s1"), CallPart(CallNoPath, "s2")>>}

\* The next (resp, err) of GenerateContentStream with these responses.
ProdRecvLive(i) ==
    LET p == prods[i] IN
    /\ ~crashed
    /\ p.pc = "recv"
    /\ \/ prods' = [prods EXCEPT ![i] =
                       [p EXCEPT !.pc = "send", !.failed = TRUE,
                                 !.ev = Event(<<>>, <<>>, FALSE, "transport error", <<>>, <<>>)]]
       \/ /\ p.nresp < MaxResps
          /\ \E resp \in TextResponses \cup
                         (IF Len(prods) < MaxStreams THEN LiveCallResponses ELSE {}) :
                prods' = [prods EXCEPT ![i] =
                             RunParts([p EXCEPT !.functionCalls = @ \o FunctionCalls(resp),
                                                !.todo = resp,
                                                !.nresp = @ + 1,
                                                !.resps = Append(@, resp)])]
       \/ prods' = [prods EXCEPT ![i] = [p EXCEPT !.pc = "send", !.ev = FinalEvent(p)]]
    /\ UNCHANGED <<execVars, keyVars, modelVars, chans, cmds, crashed, histVars>>

ReceiveLive == \E i \in 1..Len(prods) : ProdRecvLive(i)

Scheduled ==
    \/ ReceiveLive
    \/ PushChunk
    \/ PushTerminal
    \/ CloseChannel
    \/ WaitForStreamEvent
    \/ StreamChunkMsg
    \/ StreamDoneMsg
    \/ StreamErrorMsg
    \/ StreamFunctionCallMsg

NextLive == KeyEnter \/ Scheduled

SpecLive == Init /\ [][NextLive]_vars /\ WF_vars(Scheduled)

\* C32: with fair scheduling and finite streams a cycle in flight
\* eventually ends, and once no cycle is in flight an Enter is not
\* ignored: with text that is not blank it adds the user message and
\* starts a new cycle with a stream of its own.
C32_CycleEventuallyEnds ==
    /\ cycleInFlight ~> ~cycleInFlight
    /\ [][~cycleInFlight /\ lastKey' # lastKey =>
            /\ lastKey' \in {"started", "empty"}
            /\ lastKey' = "started" =>
                  /\ cycleInFlight'
                  /\ Len(messages') = Len(messages) + 1
                  /\ Len(cycleLog') = Len(cycleLog) + 1
                  /\ Len(prods') = Len(prods) + 1]_vars

\* A cycle ended with an error, a later Enter was accepted and the cycle
\* it started, which had a round with function calls, ended with an answer.
C32_Witness ==
    /\ Len(cycleLog) = 2
    /\ cycleLog[1].end = "error"
    /\ cycleLog[2].end = "done"
    /\ Len(cycleLog[2].streams) = 2
    /\ ~cycleInFlight

\* C33: no step of a streaming goroutine changes the history of the
\* model; as long as a goroutine has an event to send, the history is
\* what it was when the cycle of its stream began, a proper prefix of the
\* history the goroutine was given; the extended history exists only in
\* the goroutine and in the Done event it sends.
C33_DriverLeavesHistory ==
    /\ [](\A i \in LiveProducers :
            /\ conversation = cycleLog[CycleOf(i)].pre
            /\ IsPrefix(conversation, prods[i].conversation)
            /\ Len(conversation) < Len(prods[i].conversation)
            /\ prods[i].conversation[Len(conversation) + 1]
                  = UserTurn(cycleLog[CycleOf(i)].input))
    /\ [][prods' # prods /\ Len(prods') = Len(prods) =>
            /\ conversation' = conversation
            /\ messages' = messages
            /\ \A i \in 1..Len(prods) :
                  prods'[i].conversation = prods[i].conversation]_vars

\* A goroutine has built a Done event with function calls whose history
\* is longer than the history it was given, and has it still to send,
\* in the second cycle, when the history of the model is not empty.
C33_Witness ==
    \E i \in LiveProducers :
        /\ prods[i].pc = "send"
        /\ prods[i].ev.done
        /\ Len(prods[i].ev.functionCalls) > 0
        /\ Len(prods[i].ev.conversation) = Len(prods[i].conversation) + 1
        /\ conversation # <<>>
        /\ Len(conversation) < Len(prods[i].conversation)

\* The objects outside the root that the paths of the calls name.
OutsideTargets == {<<"/", "s">>, <<"/", "r", "a">>}

\* The file system f with these objects missing, or being a directory, a
\* file above the read limit, or a binary file.
OutsideStates(f) ==
    {[q \in DOMAIN f \ OutsideTargets |-> f[q]]}
    \cup {[q \in DOMAIN f |-> IF q \in OutsideTargets THEN node ELSE f[q]] :
            node \in {DirNode, FileNode(Bytes(<<>>, maxFileSize + 1)),
                      FileNode(Bytes(<<NUL>>, 0))}}

\* C34: the result of a path-taking operation on a path whose normalised
\* absolute form lies outside the root is the result the same call has in
\* every file system that differs in what exists outside the root (the
\* target missing, a directory, a file above the read limit, a binary
\* file), and the call reads and changes nothing.
C34_OutsideResultSame ==
    LET Same(out) ==
            /\ out.result = lastOut.result
            /\ out.reads = {} /\ out.writes = {}
        Blind ==
            /\ Untouched
            /\ \A g \in OutsideStates(prevFs) :
                  /\ Same(Execute(g, lastCall.name, lastCall.args))
                  /\ Execute(g, lastCall.name, lastCall.args).fs = g
    IN  (PathCall /\ ~Under(workingDir, LexAbs(CallPath))) => Blind

\* read_file of the file /s outside the root was refused.
C34_Witness ==
    /\ lastCall.name = "read_file"
    /\ PathGiven /\ CallPath = <<".", ".", "/", "s">>
    /\ OutsideError
    /\ prevFs[<<"/", "s">>].kind = "file"
    /\ Execute([q \in DOMAIN prevFs \ OutsideTargets |-> prevFs[q]],
               "read_file", lastCall.args).result = lastOut.result

(***************************************************************************)
(* SpecRound: write_file and read_file called MaxOps times on a file that  *)
(* exists and on one that does not, with content that is empty, short, of  *)
(* exactly the read limit and one byte more, and with a NUL byte as the    *)
(* last byte isBinaryFile reads, as the first it does not read, and in a   *)
(* content above the read limit.                                           *)
(***************************************************************************)
RoundPaths == {<<"f">>, <<"b", "/", "a">>}

RoundContents ==
    {StrVal(<<>>),
     StrVal(<<"x", "y">>),
     BigStrVal(<<"x">>, maxFileSize - 1),
     BigStrVal(<<"x">>, maxFileSize),
     StrVal(<<NUL>>),
     StrVal([i \in 1..BinaryProbe |-> IF i = BinaryProbe THEN NUL ELSE "b"]),
     StrVal([i \in 1..(BinaryProbe + 1) |-> IF i = BinaryProbe + 1 THEN NUL ELSE "b"]),
     BigStrVal(<<NUL>>, maxFileSize)}

RoundWriteArgs ==
    {("path" :> StrVal(q)) @@ ("content" :> c) : q \in RoundPaths, c \in RoundContents}

RoundReadArgs == {("path" :> StrVal(q)) : q \in RoundPaths}

InitRound ==
    /\ fs = InitFs
    /\ prevFs = fs
    /\ lastCall = NoCall
    /\ lastOut = NoOut
    /\ ops = 0
    /\ InitAgent

WriteCall ==
    /\ ops < MaxOps
    /\ \E args \in RoundWriteArgs :
          Called("write_file", args, Execute(fs, "write_file", args))
    /\ UNCHANGED agentVars

ReadBackCall ==
    /\ ops < MaxOps
    /\ \E args \in RoundReadArgs :
          Called("read_file", args, Execute(fs, "read_file", args))
    /\ UNCHANGED agentVars

NextRound == WriteCall \/ ReadBackCall

SpecRound == InitRound /\ [][NextRound]_vars

\* The last call is a read_file of the path that the call before it, a
\* write_file that succeeded, wrote.
ReadAfterWrite ==
    /\ ops >= 2
    /\ lastCall.name = "read_file"
    /\ lastOut.after.call.name = "write_file"
    /\ lastOut.after.call.args["path"] = lastCall.args["path"]
    /\ "success" \in DOMAIN lastOut.after.result

\* The content of the write_file before the last call, as bytes.
WrittenContent ==
    Bytes(lastOut.after.call.args["content"].v, lastOut.after.call.args["content"].pad)

\* C35: read_file directly after a successful write_file of content c to
\* the same path returns c and its length as size exactly when c is at
\* most 102400 bytes long and none of its first 512 bytes is NUL;
\* otherwise the content was written and read_file returns an error
\* without content.
C35_WriteReadRoundTrip ==
    LET Back(r, c, q) ==
            /\ fs = prevFs
            /\ fs[q] = FileNode(c)
            /\ lastOut.after.result["size"] = BLen(c)
            /\ IF BLen(c) <= 102400 /\ ~NulAtStart(c)
               THEN r = [path |-> q, content |-> c, size |-> BLen(c)]
               ELSE "error" \in DOMAIN r /\ "content" \notin DOMAIN r
    IN  ReadAfterWrite =>
            Back(lastOut.result, WrittenContent, LexAbs(lastCall.args["path"].v))

\* Content of one byte more than the read limit was written to a new file
\* and could not be read back.
C35_Witness ==
    /\ ReadAfterWrite
    /\ BLen(WrittenContent) = 102401
    /\ lastCall.args["path"].v = <<"b", "/", "a">>
    /\ IsError(lastOut.result, TooLarge)
    /\ fs[<<"/", "r", "/", "b", "/", "a">>].content = WrittenContent

\* C36: while a cycle is in flight there is exactly one command, on the
\* channel of the current stream, and none otherwise; a goroutine that
\* has an event to send, blocked on a full channel or not, has this
\* command on its channel, waiting or holding a Chunk after which the
\* wait is armed again; a waiting command has an event in its channel or
\* a goroutine that is still to send one, so it never finds the channel
\* closed and empty, and never has no channel; every receive takes the
\* oldest event of the channel.
C36_Handshake ==
    /\ [](/\ Len(cmds) <= 1
          /\ cycleInFlight => Len(cmds) = 1 /\ cmds[1].ch = streamChan
          /\ ~cycleInFlight => cmds = <<>>
          /\ \A i \in LiveProducers :
                \E k \in 1..Len(cmds) :
                    /\ cmds[k].ch = i
                    /\ cmds[k].st = "msg" => cmds[k].msg.type = "streamChunkMsg"
          /\ \A k \in 1..Len(cmds) :
                /\ cmds[k].ch \in 1..Len(chans)
                /\ cmds[k].st = "wait" =>
                      /\ chans[cmds[k].ch].buf # <<>> \/ cmds[k].ch \in LiveProducers
                      /\ ~(chans[cmds[k].ch].buf = <<>> /\ chans[cmds[k].ch].closed))
    /\ [][\A k \in 1..Len(cmds) :
            (cmds[k].st = "wait" /\ Len(cmds') = Len(cmds) /\ cmds'[k].st = "msg") =>
                /\ chans[cmds[k].ch].buf # <<>>
                /\ Delivers(cmds'[k].msg, Head(chans[cmds[k].ch].buf))
                /\ chans'[cmds[k].ch].buf = Tail(chans[cmds[k].ch].buf)]_vars

\* A goroutine is blocked at the push of a Chunk on its full channel and
\* the command of the foreground waits on that channel.
C36_Witness ==
    \E i \in LiveProducers :
        /\ BlockedOnPush(i)
        /\ Len(cmds) = 1
        /\ cmds[1].ch = i
        /\ cmds[1].st = "wait"
        /\ Len(prods) >= 2

(***************************************************************************)
(* SpecParts: the program with a backend whose function-call parts may be  *)
(* flagged as thought or carry text as well (genai.Part has the fields     *)
(* Text, Thought and FunctionCall side by side).                           *)
(***************************************************************************)
ThoughtCallPart(call, sig) ==
    [text |-> <<>>, thought |-> TRUE, fc |-> call, sig |-> sig, fr |-> NoFR]

TextCallPart(t, call, sig) ==
    [text |-> t, thought |-> FALSE, fc |-> call, sig |-> sig, fr |-> NoFR]

MixedCallResponses ==
    {<<CallPart(CallWrite, "s1")>>,
     <<ThoughtCallPart(CallRead, "s2"), CallPart(CallWrite, "s1")>>,
     <<TextCallPart(<<"p">>, CallWrite, "s1")>>}

\* The next (resp, err) of GenerateContentStream with these responses.
ProdRecvParts(i) ==
    LET p == prods[i] IN
    /\ ~crashed
    /\ p.pc = "recv"
    /\ \/ prods' = [prods EXCEPT ![i] =
                       [p EXCEPT !.pc = "send", !.failed = TRUE,
                                 !.ev = Event(<<>>, <<>>, FALSE, "transport error", <<>>, <<>>)]]
       \/ /\ p.nresp < MaxResps
          /\ \E resp \in TextResponses \cup
                         (IF Len(prods) < MaxStreams THEN MixedCallResponses ELSE {}) :
                prods' = [prods EXCEPT ![i] =
                             RunParts([p EXCEPT !.functionCalls = @ \o FunctionCalls(resp),
                                                !.todo = resp,
                                                !.nresp = @ + 1,
                                                !.resps = Append(@, resp)])]
       \/ prods' = [prods EXCEPT ![i] = [p EXCEPT !.pc = "send", !.ev = FinalEvent(p)]]
    /\ UNCHANGED <<execVars, keyVars, modelVars, chans, cmds, crashed, histVars>>

ReceiveParts == \E i \in 1..Len(prods) : ProdRecvParts(i)

NextParts ==
    \/ KeyEnter
    \/ ReceiveParts
    \/ PushChunk
    \/ PushTerminal
    \/ CloseChannel
    \/ WaitForStreamEvent
    \/ StreamChunkMsg
    \/ StreamDoneMsg
    \/ StreamErrorMsg
    \/ StreamFunctionCallMsg

SpecParts == Init /\ [][NextParts]_vars

\* The calls of the function-call parts of a turn, in their order.
CallsIn(turn) ==
    [n \in 1..Len(CallParts(turn.parts)) |-> CallParts(turn.parts)[n].fc]

\* C37: the model turn of the history in a Done event with function calls
\* has one function-call part for each call the event reports, in the same
\* order, and the function responses of the turn appended after it in the
\* next request answer, one for one, the calls of that model turn.
C37_OneCallPartPerCall ==
    LET Answered(conv) ==
            /\ Len(conv) >= 2
            /\ conv[Len(conv) - 1].role = "model"
            /\ [n \in 1..Len(Last(conv).parts) |-> Last(conv).parts[n].fr.name]
                  = [n \in 1..Len(CallsIn(conv[Len(conv) - 1])) |->
                        CallsIn(conv[Len(conv) - 1])[n].name]
    IN  /\ \A i \in 1..Len(prods) :
              DoneWithCalls(i) =>
                  CallsIn(Last(Last(produced[i]).conversation))
                      = Last(produced[i]).functionCalls
        /\ \A d \in 1..Len(dispatches) :
              Answered(prods[dispatches[d].stream].conversation)

\* The assistant messages displayed.
Assistants == {n \in 1..Len(messages) : messages[n].role = "assistant"}

NextKeys ==
    \/ KeyEnter
    \/ KeyCtrlT
    \/ KeyCtrlG
    \/ ReceiveLive
    \/ PushChunk
    \/ PushTerminal
    \/ CloseChannel
    \/ WaitForStreamEvent
    \/ StreamChunkMsg
    \/ StreamDoneMsg
    \/ StreamErrorMsg
    \/ StreamFunctionCallMsg

SpecKeys == Init /\ [][NextKeys]_vars

\* C39: Ctrl+T and Ctrl+G change the setting and nothing else: the streams
\* started before keep the thinking mode and the model they were started
\* with, no stream is started, no channel, command or flag changes, and
\* the history and the messages stay; every stream started later, by Enter
\* or by the handler of a function-call message in the same cycle, takes
\* the settings as they are when it starts.
C39_KeysApplyToNextRound ==
    [][/\ (thinkingEnabled' # thinkingEnabled \/ currentModel' # currentModel) =>
             /\ prods' = prods
             /\ chans' = chans
             /\ cmds' = cmds
             /\ produced' = produced
             /\ conversation' = conversation
             /\ messages' = messages
             /\ waiting' = waiting
             /\ streaming' = streaming
             /\ streamChan' = streamChan
             /\ streamBuffer' = streamBuffer
             /\ cycleLog' = cycleLog
       /\ Len(prods') >= Len(prods)
       /\ \A i \in 1..Len(prods) :
             /\ prods'[i].includeThoughts = prods[i].includeThoughts
             /\ prods'[i].model = prods[i].model
             /\ prods'[i].conversation = prods[i].conversation
       /\ Len(prods') > Len(prods) =>
             /\ Len(prods') = Len(prods) + 1
             /\ Last(prods').includeThoughts = thinkingEnabled'
             /\ Last(prods').model = currentModel']_vars

\* The model was switched while the first stream of a cycle was the only
\* one: that stream kept the model of its start, and the second stream of
\* the same cycle, started for the function results, has the new one.
C39_Witness ==
    /\ Len(cycleLog) = 1
    /\ cycleLog[1].streams = <<1, 2>>
    /\ cycleInFlight
    /\ keys = 1
    /\ prods[1].model = ModelFlash20
    /\ prods[2].model = ModelFlash25
    /\ currentModel = ModelFlash25
    /\ prods[2].includeThoughts = prods[1].includeThoughts

\* C40: the assistant message that ends a cycle, and the model turn
\* committed with it, hold the text of the last stream of the cycle and
\* nothing of the streams before it, and the message's thinking is that of
\* the last stream; the text buffer holds text of the running stream only;
\* the text of a stream that ended with function calls is the first part
\* of the model turn its Done event echoes; and no event of such a stream
\* carries its thinking.
C40_FinalFromLastRound ==
    LET PlainText(i) == TextOfResponses(prods[i].resps, FALSE)
        FinalOf(c, last, final) ==
            /\ final.role = "assistant"
            /\ final.content = PlainText(last)
            /\ final.thinking = TextOfResponses(prods[last].resps, TRUE)
            /\ Last(cycleLog[c].post) = ModelTurn(PlainText(last))
        EchoOf(d, text) ==
            /\ Last(dispatches[d].conversation).role = "model"
            /\ Last(dispatches[d].conversation).parts
                  = (IF text # <<>> THEN <<TextPart(text)>> ELSE <<>>)
                    \o CallParts(Last(dispatches[d].conversation).parts)
            /\ \A n \in 1..Len(produced[dispatches[d].from]) :
                  produced[dispatches[d].from][n].thinking = <<>>
    IN  /\ \A c \in 1..Len(cycleLog) :
              cycleLog[c].end = "done" =>
                  FinalOf(c, Last(cycleLog[c].streams), messages[cycleLog[c].msgs1])
        /\ \A d \in 1..Len(dispatches) :
              EchoOf(d, PlainText(dispatches[d].from))
        /\ cycleInFlight => IsPrefix(streamBuffer, PlainText(streamChan))
        /\ ~cycleInFlight => streamBuffer = <<>>

\* A cycle ended with Done after a stream that thought, sent text and asked
\* for tools and a last stream that thought and sent other text.
C40_Witness ==
    /\ Len(cycleLog) = 1
    /\ cycleLog[1].end = "done"
    /\ cycleLog[1].streams = <<1, 2>>
    /\ TextOfResponses(prods[1].resps, FALSE) = <<"p", "q">>
    /\ TextOfResponses(prods[1].resps, TRUE) = <<"t">>
    /\ TextOfResponses(prods[2].resps, FALSE) # <<>>
    /\ messages[2].content = TextOfResponses(prods[2].resps, FALSE)
    /\ messages[2].thinking = <<"t">>
    /\ Head(Last(dispatches[1].conversation).parts) = TextPart(<<"p", "q">>)

====
